---------------------------- MODULE Spec2Model ----------------------------
(***************************************************************************)
(* A model of the multicluster proxy (proxy-aae).                          *)
(*                                                                         *)
(*   - the hub: Kueue Workloads, MultiKueueCluster registrations, the       *)
(*     kubeconfig secrets and the RBAC the SelfSubjectAccessReview reads    *)
(*   - WorkerConfigRegistry: the configs map, its lock and the goroutine   *)
(*     watchMultiKueueClusters (internal/registry)                         *)
(*   - WorkloadResolver.ResolveWorkerCluster (internal/resolver)           *)
(*   - AuthzHandler (internal/authz)                                       *)
(*   - ProxyServer's handlers (internal/handlers), one action per stretch  *)
(*     of handler code between two blocking calls                          *)
(*                                                                         *)
(* A handler runs in its own goroutine on local variables only; the one    *)
(* shared object it touches is the registry, which it only reads.  The     *)
(* model therefore follows one request in flight (req) against every       *)
(* interleaving of the registry goroutine and of the hub's changes; any    *)
(* other request is, for this one, part of that environment.               *)
(*                                                                         *)
(* Spec follows the request; SpecRegistry follows the registry alone, with *)
(* its readers taken lock step by lock step and a hub whose registrations  *)
(* and kubeconfig secrets change and break.                                *)
(***************************************************************************)
EXTENDS Integers, Naturals, Sequences, FiniteSets, TLC

\* Cap on the events queued in the watch channel (the channel itself is
\* unbounded for the model's purposes).
MaxEvents == 2

\* The most bytes a worker cluster delivers on one log stream.
MaxBytes == 3

\* The most characters in a value of ?tailLines= or ?sinceSeconds=
MaxParamLen == 2

\* The largest int64, 2^63 - 1, scaled down so that values of MaxParamLen
\* digits fall on both sides of it.
MaxInt64 == 21

VARIABLES
    workloads,    \* hub: the Workload objects, in the order List returns them
    mkClusters,   \* hub: MultiKueueCluster name -> Spec.KubeConfig
    secrets,      \* hub: secret name -> Data (key -> bytes), WorkersSecretNamespace
    configs,      \* WorkerConfigRegistry.configs
    mu,           \* WorkerConfigRegistry.mu: "free", "W" (write-locked) or "R"
                  \* (read-locked by the goroutines of readers that are inside)
    wpc,          \* position of the goroutine watchMultiKueueClusters
    wcaller,      \* which call of LoadConfigs is running: "initial" or "event"
    lcItems,      \* LoadConfigs: clusters.Items still to be visited
    watch,        \* the watch on MultiKueueClusters: "none", "open", "closed"
    lcDone,       \* LoadConfigs: the items visited by the call that is running,
                  \* each with the outcome of its resolution (history)
    lcBefore,     \* LoadConfigs: the map as it was when the call took the lock
                  \* (history)
    events,       \* watcher.ResultChan(): events sent and not yet received
    readers,      \* the other goroutines that read the registry: a handler in
                  \* GetConfig and a readiness probe in ListClusters
    req,          \* the request in flight: its inputs, locals and response
    revoked,      \* hub: the tokens whose access has been taken away
    stream,       \* the two ends of the log stream the request relays: the
                  \* worker's follow-stream and the caller's WebSocket
    hist          \* the last /resolve answered before the request in flight
                  \* (history)

hubVars == <<workloads, mkClusters, secrets, revoked>>
regVars == <<configs, mu, wpc, wcaller, lcItems, lcDone, lcBefore, watch,
            events, readers>>
vars == <<workloads, mkClusters, secrets, configs, mu, wpc, wcaller, lcItems,
          lcDone, lcBefore, watch, events, readers, req, revoked, stream, hist>>

---------------------------------------------------------------------------
(* Names *)

Namespace == "ns1"
OtherNamespace == "ns2"
PipelineRunName == "pr1"
PodName == "p1"
ClusterNames == {"c1", "c2"}
\* The registrations that come and go while the proxy runs; the others stay.
ChangingClusters == {"c1"}
NilString == "<nil>"          \* a nil *string
NoHeader == "<unset>"         \* a response header that was never set

\* The secret each registration points at and the bytes under its
\* "kubeconfig" key.
SecretOf(c) == IF c = "c1" THEN "secret-c1" ELSE "secret-c2"
KubeconfigOf(c) == IF c = "c1" THEN "kubeconfig:c1" ELSE "kubeconfig:c2"

\* clientcmd.RESTConfigFromKubeConfig: bytes -> (*rest.Config, error)
RESTConfigFromKubeConfig(data) ==
    CASE data = "kubeconfig:c1" -> [err |-> FALSE, config |-> [host |-> "https://c1"]]
      [] data = "kubeconfig:c2" -> [err |-> FALSE, config |-> [host |-> "https://c2"]]
      [] data = "kubeconfig:c1b" -> [err |-> FALSE, config |-> [host |-> "https://c1b"]]
      [] OTHER -> [err |-> TRUE, config |-> [host |-> ""]]

---------------------------------------------------------------------------
(* WorkloadResolver *)

NoWorkload == [name |-> "", namespace |-> "", ownerReferences |-> <<>>,
               admission |-> FALSE, clusterName |-> NilString]

\* WorkerCluster, a value of the struct
NoWorkerCluster == [name |-> "", state |-> "", workloadName |-> ""]

\* Workloads(namespace).List: the items of that namespace, in order.
ListWorkloads(namespace) ==
    SelectSeq(workloads, LAMBDA w : w.namespace = namespace)

HasOwner(w, pipelineRunName) ==
    \E i \in 1..Len(w.ownerReferences) :
        /\ w.ownerReferences[i].kind = "PipelineRun"
        /\ w.ownerReferences[i].name = pipelineRunName

\* findWorkloadByPipelineRun with the fault of matching an owner reference by
\* its name alone, whatever its kind.
findWorkloadAnyKind(items, pipelineRunName) ==
    LET hits == {i \in 1..Len(items) :
                    \E k \in 1..Len(items[i].ownerReferences) :
                        items[i].ownerReferences[k].name = pipelineRunName}
    IN  IF hits = {} THEN [found |-> FALSE, workload |-> NoWorkload]
        ELSE [found |-> TRUE,
              workload |-> items[CHOOSE i \in hits : \A j \in hits : i <= j]]

\* findWorkloadByPipelineRun, after a List that succeeded: the first item
\* with a matching owner reference, or nil.
findWorkloadByPipelineRun(items, pipelineRunName) ==
    LET hits == {i \in 1..Len(items) : HasOwner(items[i], pipelineRunName)}
    IN  IF hits = {} THEN [found |-> FALSE, workload |-> NoWorkload]
        ELSE [found |-> TRUE,
              workload |-> items[CHOOSE i \in hits : \A j \in hits : i <= j]]

\* ResolveWorkerCluster with the fault of failing on a nil Status.ClusterName.
ResolveWorkerClusterNilFails(listErr, namespace, pipelineRunName) ==
    IF listErr THEN [err |-> TRUE, wc |-> NoWorkerCluster]
    ELSE LET f == findWorkloadByPipelineRun(ListWorkloads(namespace), pipelineRunName)
         IN  IF ~f.found THEN [err |-> TRUE, wc |-> NoWorkerCluster]
             ELSE IF f.workload.admission
               THEN (IF f.workload.clusterName = NilString
                       THEN [err |-> TRUE, wc |-> NoWorkerCluster]
                       ELSE [err |-> FALSE,
                             wc |-> [name |-> f.workload.clusterName,
                                     state |-> "Admitted",
                                     workloadName |-> f.workload.name]])
               ELSE [err |-> FALSE,
                     wc |-> [name |-> "", state |-> "Dispatching",
                             workloadName |-> f.workload.name]]

\* ResolveWorkerCluster with the fault of a cache: once a /resolve has been
\* answered, what it was given is returned again.
ResolveWorkerClusterCached(listErr, namespace, pipelineRunName) ==
    IF listErr THEN [err |-> TRUE, wc |-> NoWorkerCluster]
    ELSE IF hist.status # 0 THEN [err |-> hist.status = 404, wc |-> hist.wc]
    ELSE LET f == findWorkloadByPipelineRun(ListWorkloads(namespace), pipelineRunName)
         IN  IF ~f.found THEN [err |-> TRUE, wc |-> NoWorkerCluster]
             ELSE IF f.workload.admission
               THEN [err |-> FALSE,
                     wc |-> [name |-> IF f.workload.clusterName # NilString
                                        THEN f.workload.clusterName ELSE "",
                             state |-> "Admitted",
                             workloadName |-> f.workload.name]]
               ELSE [err |-> FALSE,
                     wc |-> [name |-> "", state |-> "Dispatching",
                             workloadName |-> f.workload.name]]

\* ResolveWorkerCluster; listErr says that the List call failed.
ResolveWorkerCluster(listErr, namespace, pipelineRunName) ==
    IF listErr THEN [err |-> TRUE, wc |-> NoWorkerCluster]
    ELSE LET f == findWorkloadByPipelineRun(ListWorkloads(namespace), pipelineRunName)
         IN  IF ~f.found THEN [err |-> TRUE, wc |-> NoWorkerCluster]
             ELSE IF f.workload.admission
               THEN [err |-> FALSE,
                     wc |-> [name |-> IF f.workload.clusterName # NilString
                                        THEN f.workload.clusterName ELSE "",
                             state |-> "Admitted",
                             workloadName |-> f.workload.name]]
               ELSE [err |-> FALSE,
                     wc |-> [name |-> "", state |-> "Dispatching",
                             workloadName |-> f.workload.name]]

\* json.NewEncoder(w).Encode(workerCluster): name and workloadName carry
\* omitempty, state does not (nominatedClusters is never set).
EncodeWorkerCluster(wc) ==
    LET keys == {"state"} \cup (IF wc.name # "" THEN {"name"} ELSE {})
                          \cup (IF wc.workloadName # "" THEN {"workloadName"} ELSE {})
    IN  [k \in keys |-> wc[k]]

---------------------------------------------------------------------------
(* AuthzHandler *)

\* strings.ToLower on the scheme words that occur
ToLower(s) ==
    CASE s = "Bearer" -> "bearer"
      [] s = "Basic" -> "basic"
      [] OTHER -> s

\* extractBearerToken.  The Authorization header is given as
\* strings.SplitN(authHeader, " ", 2) cuts it; <<>> stands for no header.
extractBearerToken(hdr) ==
    IF hdr = <<>> THEN ""
    ELSE IF Len(hdr) # 2 \/ ToLower(hdr[1]) # "bearer" THEN ""
    ELSE hdr[2]

NoReview == [cred |-> "", namespace |-> "", verb |-> "", group |-> "",
             resource |-> "", name |-> ""]

\* The SelfSubjectAccessReview that CheckPipelineRunAccess creates, and the
\* credential of the client that submits it.
CheckPipelineRunAccess(callerToken, namespace, pipelineRunName) ==
    [cred |-> callerToken, namespace |-> namespace, verb |-> "get",
     group |-> "tekton.dev", resource |-> "pipelineruns", name |-> pipelineRunName]

\* CheckPodAccess
CheckPodAccess(callerToken, namespace, podName) ==
    [cred |-> callerToken, namespace |-> namespace, verb |-> "get",
     group |-> "", resource |-> "pods", name |-> podName]

\* CheckPodLogsAccess with the fault of reviewing the pod, not its log.
CheckPodLogsAccessAsPod(callerToken, namespace, podName) ==
    [cred |-> callerToken, namespace |-> namespace, verb |-> "get",
     group |-> "", resource |-> "pods", name |-> podName]

\* CheckPodLogsAccess
CheckPodLogsAccess(callerToken, namespace, podName) ==
    [cred |-> callerToken, namespace |-> namespace, verb |-> "get",
     group |-> "", resource |-> "pods/log", name |-> podName]

\* The hub's answer to a review: tokA may read everything in ns1, tokB only
\* the pods.  proxy-sa is the proxy's own service account.
HubAllowed(review) ==
    /\ review.cred \notin revoked
    /\ \/ review.cred \in {"tokA", "proxy-sa"}
       \/ review.cred = "tokB" /\ review.resource = "pods"

\* The end of Check*Access, from the Create call on: nil (TRUE) or an error.
\* createErr says that the Create call failed (the API server is unreachable
\* or does not authenticate the token).
ReviewPasses(review, createErr) ==
    /\ ~createErr
    /\ HubAllowed(review)

---------------------------------------------------------------------------
(* WorkerConfigRegistry *)

\* make(map[string]*rest.Config)
NoConfigs == [n \in {} |-> [host |-> ""]]

\* GetConfig with the fault of returning an entry of the map that need not
\* be the one asked for.
GetConfigSomeEntry(clusterName) ==
    IF clusterName \in DOMAIN configs
      THEN [err |-> FALSE, config |-> configs[CHOOSE n \in DOMAIN configs : n # "c2" \/ DOMAIN configs = {"c2"}]]
      ELSE [err |-> TRUE, config |-> [host |-> ""]]

\* GetConfig: the map read made under RLock.
GetConfig(clusterName) ==
    IF clusterName \in DOMAIN configs
      THEN [err |-> FALSE, config |-> configs[clusterName]]
      ELSE [err |-> TRUE, config |-> [host |-> ""]]

\* ListClusters: the keys of the map, read under RLock.
ListClusters == DOMAIN configs

\* What the loop body comes to for an item: the continue it takes, or the
\* config it parsed.
ItemOutcome(kc) ==
    IF kc.locationType # "Secret" THEN [err |-> "location type", config |-> [host |-> ""]]
    ELSE IF kc.location = "" THEN [err |-> "empty location", config |-> [host |-> ""]]
    ELSE IF kc.location \notin DOMAIN secrets THEN [err |-> "secret", config |-> [host |-> ""]]
    ELSE IF "kubeconfig" \notin DOMAIN secrets[kc.location]
      THEN [err |-> "key", config |-> [host |-> ""]]
    ELSE LET parsed == RESTConfigFromKubeConfig(secrets[kc.location]["kubeconfig"])
         IN  IF parsed.err THEN [err |-> "parse", config |-> [host |-> ""]]
             ELSE [err |-> "", config |-> parsed.config]

\* LoadOne with the fault of removing the entry of an item that fails.
LoadOneDropsFailed(cfgs, clusterName, kc) ==
    IF ItemOutcome(kc).err # ""
      THEN [n \in (DOMAIN cfgs) \ {clusterName} |-> cfgs[n]]
      ELSE [n \in (DOMAIN cfgs) \cup {clusterName} |->
               IF n = clusterName THEN ItemOutcome(kc).config ELSE cfgs[n]]

\* LoadOne with the fault of never overwriting an entry.
LoadOneInsertOnly(cfgs, clusterName, kc) ==
    IF ItemOutcome(kc).err # "" \/ clusterName \in DOMAIN cfgs THEN cfgs
    ELSE [n \in (DOMAIN cfgs) \cup {clusterName} |->
             IF n = clusterName THEN ItemOutcome(kc).config ELSE cfgs[n]]

\* LoadOne with the fault of storing the config of a kubeconfig that did not
\* parse.
LoadOneStoresOnError(cfgs, clusterName, kc) ==
    IF ItemOutcome(kc).err \notin {"", "parse"} THEN cfgs
    ELSE [n \in (DOMAIN cfgs) \cup {clusterName} |->
             IF n = clusterName THEN ItemOutcome(kc).config ELSE cfgs[n]]

\* One iteration of the loop of LoadConfigs over clusters.Items: the map
\* after it.  kc is the item's Spec.KubeConfig as listed; the secret is read
\* now.
LoadOne(cfgs, clusterName, kc) ==
    IF kc.locationType # "Secret" THEN cfgs
    ELSE IF kc.location = "" THEN cfgs
    ELSE IF kc.location \notin DOMAIN secrets THEN cfgs
    ELSE IF "kubeconfig" \notin DOMAIN secrets[kc.location] THEN cfgs
    ELSE LET parsed == RESTConfigFromKubeConfig(secrets[kc.location]["kubeconfig"])
         IN  IF parsed.err THEN cfgs
             ELSE [n \in (DOMAIN cfgs) \cup {clusterName} |->
                      IF n = clusterName THEN parsed.config ELSE cfgs[n]]

\* The items of a List of MultiKueueClusters, in name order.
RECURSIVE ItemsOf(_)
ItemsOf(names) ==
    IF names = {} THEN <<>>
    ELSE LET n == CHOOSE x \in names : \A y \in names : x = "c1" \/ y # "c1"
         IN  <<[name |-> n, kubeConfig |-> mkClusters[n]]>> \o ItemsOf(names \ {n})

\* LoadConfigsLock with the fault of emptying the map before the reload.
LoadConfigsLockClears ==
    /\ wpc = "load"
    /\ mu = "free"
    /\ mu' = "W"
    /\ wpc' = "list"
    /\ lcDone' = <<>>
    /\ lcBefore' = configs
    /\ configs' = NoConfigs
    /\ UNCHANGED <<hist, stream, readers, hubVars, wcaller, lcItems, watch, events, req>>

\* r.mu.Lock() at the top of LoadConfigs.
LoadConfigsLock ==
    /\ wpc = "load"
    /\ mu = "free"
    /\ mu' = "W"
    /\ wpc' = "list"
    /\ lcDone' = <<>>
    /\ lcBefore' = configs
    /\ UNCHANGED <<hist, stream, readers, hubVars, configs, wcaller, lcItems, watch, events, req>>

\* After LoadConfigs returns (mu unlocked by the defer): the initial call
\* goes on to open the watch, a call made for an event goes back to the loop.
AfterLoad == IF wcaller = "initial" THEN "open" ELSE "recv"

\* LoadConfigsList with the fault of releasing the lock once the list is in.
LoadConfigsListUnlocks ==
    /\ wpc = "list"
    /\ lcItems' = ItemsOf(DOMAIN mkClusters)
    /\ wpc' = "iter"
    /\ mu' = "free"
    /\ UNCHANGED <<hist, stream, readers, lcDone, lcBefore, hubVars, configs, wcaller, watch, events, req>>

\* LoadConfigsList with the fault of emptying the map when the List fails.
LoadConfigsListClearsOnError ==
    /\ wpc = "list"
    /\ \/ /\ lcItems' = ItemsOf(DOMAIN mkClusters)
          /\ wpc' = "iter"
          /\ mu' = mu
          /\ UNCHANGED <<lcBefore, configs>>
       \/ /\ lcItems' = <<>>
          /\ wpc' = AfterLoad
          /\ mu' = "free"
          /\ lcBefore' = NoConfigs
          /\ configs' = NoConfigs
    /\ UNCHANGED <<hist, stream, readers, lcDone, hubVars, wcaller, watch, events, req>>

\* MultiKueueClusters().List: on an error LoadConfigs returns it (the caller
\* logs it and carries on), the deferred Unlock runs.
LoadConfigsList ==
    /\ wpc = "list"
    /\ \/ /\ lcItems' = ItemsOf(DOMAIN mkClusters)
          /\ wpc' = "iter"
          /\ mu' = mu
          /\ UNCHANGED lcBefore
       \/ /\ lcItems' = <<>>
          /\ wpc' = AfterLoad
          /\ mu' = "free"
          /\ lcBefore' = NoConfigs
    /\ UNCHANGED <<hist, stream, readers, lcDone, hubVars, configs, wcaller, watch, events, req>>

\* LoadConfigsItem with the fault of returning at the first item that fails.
LoadConfigsItemAborts ==
    /\ wpc = "iter"
    /\ lcItems # <<>>
    /\ configs' = LoadOne(configs, Head(lcItems).name, Head(lcItems).kubeConfig)
    /\ lcDone' = Append(lcDone, [name |-> Head(lcItems).name,
                                 outcome |-> ItemOutcome(Head(lcItems).kubeConfig)])
    /\ IF ItemOutcome(Head(lcItems).kubeConfig).err # ""
         THEN lcItems' = <<>> /\ mu' = "free" /\ wpc' = AfterLoad
         ELSE lcItems' = Tail(lcItems) /\ mu' = mu /\ wpc' = wpc
    /\ UNCHANGED <<hist, stream, readers, lcBefore, hubVars, wcaller, watch, events, req>>

\* One iteration of the loop over clusters.Items.
LoadConfigsItem ==
    /\ wpc = "iter"
    /\ lcItems # <<>>
    /\ configs' = LoadOne(configs, Head(lcItems).name, Head(lcItems).kubeConfig)
    /\ lcItems' = Tail(lcItems)
    /\ lcDone' = Append(lcDone, [name |-> Head(lcItems).name,
                                 outcome |-> ItemOutcome(Head(lcItems).kubeConfig)])
    /\ UNCHANGED <<hist, stream, readers, lcBefore, hubVars, mu, wpc, wcaller, watch, events, req>>

\* return nil, and the deferred r.mu.Unlock().
LoadConfigsReturn ==
    /\ wpc = "iter"
    /\ lcItems = <<>>
    /\ mu' = "free"
    /\ wpc' = AfterLoad
    /\ lcDone' = <<>>
    /\ lcBefore' = NoConfigs
    /\ UNCHANGED <<hist, stream, readers, hubVars, configs, wcaller, lcItems, watch, events, req>>

\* MultiKueueClusters().Watch: on an error the goroutine returns.
WatchOpen ==
    /\ wpc = "open"
    /\ \/ /\ watch' = "open"
          /\ wpc' = "recv"
       \/ /\ watch' = watch
          /\ wpc' = "stopped"
    /\ UNCHANGED <<hist, stream, readers, lcDone, lcBefore, hubVars, configs, mu, wcaller, lcItems, events, req>>

\* WatchReload with the fault of taking the newest event, not the oldest.
WatchReloadNewest ==
    /\ wpc = "recv"
    /\ events # <<>>
    /\ events[Len(events)].type \in {"ADDED", "MODIFIED"}
    /\ events' = SubSeq(events, 1, Len(events) - 1)
    /\ wcaller' = "event"
    /\ wpc' = "load"
    /\ UNCHANGED <<hist, stream, readers, lcDone, lcBefore, hubVars, configs, mu, lcItems, watch, req>>

\* for event := range watcher.ResultChan(), an ADDED or MODIFIED event:
\* LoadConfigs is called.
WatchReload ==
    /\ wpc = "recv"
    /\ events # <<>>
    /\ Head(events).type \in {"ADDED", "MODIFIED"}
    /\ events' = Tail(events)
    /\ wcaller' = "event"
    /\ wpc' = "load"
    /\ UNCHANGED <<hist, stream, readers, lcDone, lcBefore, hubVars, configs, mu, lcItems, watch, req>>

\* WatchDeleted with the fault of emptying the map.
WatchDeletedAll ==
    /\ wpc = "recv"
    /\ events # <<>>
    /\ Head(events).type = "DELETED"
    /\ mu = "free"
    /\ events' = Tail(events)
    /\ configs' = NoConfigs
    /\ UNCHANGED <<hist, stream, readers, lcDone, lcBefore, hubVars, mu, wpc, wcaller, lcItems, watch, req>>

\* WatchDeleted with the fault of deleting the cluster's secret on the hub.
WatchDeletedRemovesSecret ==
    /\ wpc = "recv"
    /\ events # <<>>
    /\ Head(events).type = "DELETED"
    /\ mu = "free"
    /\ events' = Tail(events)
    /\ configs' = [n \in (DOMAIN configs) \ {Head(events).name} |-> configs[n]]
    /\ secrets' = [n \in (DOMAIN secrets) \ {SecretOf(Head(events).name)} |-> secrets[n]]
    /\ UNCHANGED <<hist, stream, readers, lcDone, lcBefore, workloads, mkClusters,
                   revoked, mu, wpc, wcaller, lcItems, watch, req>>

\* A DELETED event: Lock, delete(r.configs, cluster.Name), Unlock.
WatchDeleted ==
    /\ wpc = "recv"
    /\ events # <<>>
    /\ Head(events).type = "DELETED"
    /\ mu = "free"
    /\ events' = Tail(events)
    /\ configs' = [n \in (DOMAIN configs) \ {Head(events).name} |-> configs[n]]
    /\ UNCHANGED <<hist, stream, readers, lcDone, lcBefore, hubVars, mu, wpc, wcaller, lcItems, watch, req>>

\* WatchEnd with the fault of opening the watch again.
WatchEndReopens ==
    /\ wpc = "recv"
    /\ events = <<>>
    /\ watch = "closed"
    /\ wpc' = "open"
    /\ UNCHANGED <<hist, stream, readers, lcDone, lcBefore, hubVars, configs, mu, wcaller, lcItems, watch, events, req>>

\* The channel is closed and drained: the range loop ends, the deferred
\* watcher.Stop() runs and the goroutine returns.
WatchEnd ==
    /\ wpc = "recv"
    /\ events = <<>>
    /\ watch = "closed"
    /\ wpc' = "stopped"
    /\ UNCHANGED <<hist, stream, readers, lcDone, lcBefore, hubVars, configs, mu, wcaller, lcItems, watch, events, req>>

---------------------------------------------------------------------------
(* The registry's readers, lock step by lock step *)

NoResult == [err |-> FALSE, config |-> [host |-> "<none>"]]

\* get: a handler's call of GetConfig(name); list: handleReady's call of
\* ListClusters.  pc is "idle" or "rlocked" (between RLock and RUnlock).
IdleReaders ==
    [get |-> [pc |-> "idle", name |-> "", got |-> NoResult],
     list |-> [pc |-> "idle"]]

\* The lock after an RUnlock: still read-locked while another reader is in.
AfterRUnlock(others) == IF \E r \in others : readers[r].pc = "rlocked" THEN "R" ELSE "free"

\* GetConfigRLock with the fault of not taking the lock.
GetConfigNoLock ==
    /\ readers.get.pc = "idle"
    /\ mu' = IF mu = "W" THEN "W" ELSE "R"
    /\ \E c \in ClusterNames :
          readers' = [readers EXCEPT !.get = [pc |-> "rlocked", name |-> c, got |-> NoResult]]
    /\ UNCHANGED <<hist, stream, hubVars, configs, wpc, wcaller, lcItems, lcDone, lcBefore, watch, events, req>>

\* GetConfig: r.mu.RLock(), which waits while the lock is write-locked.
GetConfigRLock ==
    /\ readers.get.pc = "idle"
    /\ mu # "W"
    /\ mu' = "R"
    /\ \E c \in ClusterNames :
          readers' = [readers EXCEPT !.get = [pc |-> "rlocked", name |-> c, got |-> NoResult]]
    /\ UNCHANGED <<hist, stream, hubVars, configs, wpc, wcaller, lcItems, lcDone, lcBefore, watch, events, req>>

\* GetConfig: the map read, the return and the deferred RUnlock.
GetConfigReturn ==
    /\ readers.get.pc = "rlocked"
    /\ readers' = [readers EXCEPT !.get.pc = "idle",
                                  !.get.got = GetConfig(readers.get.name)]
    /\ mu' = AfterRUnlock({"list"})
    /\ UNCHANGED <<hist, stream, hubVars, configs, wpc, wcaller, lcItems, lcDone, lcBefore, watch, events, req>>

\* ListClusters: r.mu.RLock().
ListClustersRLock ==
    /\ readers.list.pc = "idle"
    /\ mu # "W"
    /\ mu' = "R"
    /\ readers' = [readers EXCEPT !.list.pc = "rlocked"]
    /\ UNCHANGED <<hist, stream, hubVars, configs, wpc, wcaller, lcItems, lcDone, lcBefore, watch, events, req>>

\* ListClusters: the keys are copied, the return and the deferred RUnlock.
ListClustersReturn ==
    /\ readers.list.pc = "rlocked"
    /\ readers' = [readers EXCEPT !.list.pc = "idle"]
    /\ mu' = AfterRUnlock({"get"})
    /\ UNCHANGED <<hist, stream, hubVars, configs, wpc, wcaller, lcItems, lcDone, lcBefore, watch, events, req>>

---------------------------------------------------------------------------
(* The hub, which the proxy only reads *)

Send(e) == IF watch = "open" THEN Append(events, e) ELSE events

\* A MultiKueueCluster is created.
HubRegister(c) ==
    /\ c \notin DOMAIN mkClusters
    /\ Len(events) < MaxEvents
    /\ mkClusters' = [n \in (DOMAIN mkClusters) \cup {c} |->
                        IF n = c THEN [locationType |-> "Secret", location |-> SecretOf(c)]
                        ELSE mkClusters[n]]
    /\ events' = Send([type |-> "ADDED", name |-> c])
    /\ UNCHANGED <<hist, stream, revoked, readers, lcDone, lcBefore, workloads, secrets, configs, mu, wpc, wcaller, lcItems, watch, req>>

\* A MultiKueueCluster is deleted.
HubUnregister(c) ==
    /\ c \in DOMAIN mkClusters
    /\ Len(events) < MaxEvents
    /\ mkClusters' = [n \in (DOMAIN mkClusters) \ {c} |-> mkClusters[n]]
    /\ events' = Send([type |-> "DELETED", name |-> c])
    /\ UNCHANGED <<hist, stream, revoked, readers, lcDone, lcBefore, workloads, secrets, configs, mu, wpc, wcaller, lcItems, watch, req>>

\* The values Spec.KubeConfig of a registration takes.
KubeConfigs(c) ==
    {[locationType |-> "Secret", location |-> SecretOf(c)],
     [locationType |-> "Path", location |-> SecretOf(c)],
     [locationType |-> "Secret", location |-> ""]}

\* A MultiKueueCluster's Spec.KubeConfig is edited.
HubModify(c) ==
    /\ c \in DOMAIN mkClusters
    /\ Len(events) < MaxEvents
    /\ \E kc \in KubeConfigs(c) \ {mkClusters[c]} :
          mkClusters' = [mkClusters EXCEPT ![c] = kc]
    /\ events' = Send([type |-> "MODIFIED", name |-> c])
    /\ UNCHANGED <<hist, stream, revoked, readers, lcDone, lcBefore, workloads, secrets, configs, mu, wpc, wcaller, lcItems, watch, req>>

\* The contents a kubeconfig secret takes: the cluster's kubeconfig, a
\* rotated one, bytes that do not parse, or no "kubeconfig" key.
SecretData(c) ==
    {[k \in {"kubeconfig"} |-> KubeconfigOf(c)],
     [k \in {"kubeconfig"} |-> "kubeconfig:c1b"],
     [k \in {"kubeconfig"} |-> "not a kubeconfig"],
     [k \in {"config"} |-> KubeconfigOf(c)]}

\* A kubeconfig secret is written; the registry is not told.
HubPutSecret(c) ==
    /\ \E data \in SecretData(c) :
          /\ SecretOf(c) \in DOMAIN secrets => secrets[SecretOf(c)] # data
          /\ secrets' = [n \in (DOMAIN secrets) \cup {SecretOf(c)} |->
                            IF n = SecretOf(c) THEN data ELSE secrets[n]]
    /\ UNCHANGED <<hist, stream, revoked, workloads, mkClusters, regVars, req>>

\* A kubeconfig secret is deleted.
HubDeleteSecret(c) ==
    /\ SecretOf(c) \in DOMAIN secrets
    /\ secrets' = [n \in (DOMAIN secrets) \ {SecretOf(c)} |-> secrets[n]]
    /\ UNCHANGED <<hist, stream, revoked, workloads, mkClusters, regVars, req>>

\* The API server ends the watch: the result channel is closed.
HubCloseWatch ==
    /\ watch = "open"
    /\ watch' = "closed"
    /\ UNCHANGED <<hist, stream, readers, lcDone, lcBefore, hubVars, configs, mu, wpc, wcaller, lcItems, events, req>>

---------------------------------------------------------------------------
(* ProxyServer: the request, and the handlers' code between blocking calls *)

NoConfig == [host |-> ""]

\* --default-log-tail-lines, Config.DefaultLogTailLines
DefaultLogTailLines == 100

\* A query parameter that is absent (Query().Get gives ""); a value is the
\* sequence of its characters.
NoParam == <<>>

DigitValue(c) ==
    CASE c = "0" -> 0 [] c = "1" -> 1 [] c = "2" -> 2 [] c = "3" -> 3 [] c = "4" -> 4
      [] c = "5" -> 5 [] c = "6" -> 6 [] c = "7" -> 7 [] c = "8" -> 8 [] c = "9" -> 9
      [] OTHER -> -1

RECURSIVE ParseUint(_, _)
\* strconv.ParseUint(s, 10, 64), digit by digit from the value so far: -1
\* for a character that is no digit and for a value past 2^64 - 1.
ParseUint(s, acc) ==
    IF s = <<>> THEN acc
    ELSE LET d == DigitValue(Head(s))
         IN  IF d < 0 THEN -1
             ELSE IF acc * 10 + d > 2 * MaxInt64 + 1 THEN -1
             ELSE ParseUint(Tail(s), acc * 10 + d)

\* ParseInt with the fault of taking no sign.
ParseIntUnsigned(s) ==
    IF s = <<>> THEN [ok |-> FALSE, val |-> 0]
    ELSE LET un == ParseUint(s, 0)
         IN  IF un < 0 \/ un > MaxInt64 THEN [ok |-> FALSE, val |-> 0]
             ELSE [ok |-> TRUE, val |-> un]

\* strconv.ParseInt(s, 10, 64): an optional sign, then one digit or more;
\* an error for anything else and for a value outside int64.
ParseInt(s) ==
    IF s = <<>> THEN [ok |-> FALSE, val |-> 0]
    ELSE LET neg == Head(s) = "-"
             digits == IF Head(s) \in {"+", "-"} THEN Tail(s) ELSE s
             un == IF digits = <<>> THEN -1 ELSE ParseUint(digits, 0)
         IN  IF un < 0 THEN [ok |-> FALSE, val |-> 0]
             ELSE IF ~neg /\ un > MaxInt64 THEN [ok |-> FALSE, val |-> 0]
             ELSE IF neg /\ un > MaxInt64 + 1 THEN [ok |-> FALSE, val |-> 0]
             ELSE [ok |-> TRUE, val |-> IF neg THEN 0 - un ELSE un]

\* No PodLogOptions: the call is not for logs.
\* A nil *int64 and a nil *Time
NilInt == [set |-> FALSE, val |-> 0]
NilTime == [set |-> FALSE, secondsAgo |-> 0]

NoLogOptions == [follow |-> FALSE, tailLines |-> NilInt, sinceTime |-> NilTime]

\* handleLogsFetch: the PodLogOptions from ?sinceSeconds= and ?tailLines=.
\* SinceTime, when set, is now minus that many seconds.
LogOptions(q) ==
    LET since == ParseInt(q.sinceSeconds)
        sinceSeconds == IF q.sinceSeconds # NoParam /\ since.ok THEN since.val ELSE 0
        tail == ParseInt(q.tailLines)
        tailLines == IF q.tailLines # NoParam /\ tail.ok THEN tail.val
                     ELSE DefaultLogTailLines
    IN  [follow |-> FALSE, tailLines |-> [set |-> TRUE, val |-> tailLines],
         sinceTime |-> IF sinceSeconds > 0
                         THEN [set |-> TRUE, secondsAgo |-> sinceSeconds]
                         ELSE NilTime]

NoCall == [host |-> "", kind |-> "", namespace |-> "", arg |-> "",
           opts |-> NoLogOptions]
NoBody == [kind |-> "none"]
ErrorBody == [kind |-> "error"]

\* The request before the handler has run.
NewRequest(in) ==
    [route |-> in.route, parts |-> in.parts, hdr |-> in.hdr, q |-> in.q,
     pc |-> "new", op |-> "", authz |-> "none", ssar |-> NoReview,
     wc |-> NoWorkerCluster, cfgName |-> NoHeader, config |-> NoConfig,
     call |-> NoCall, nResolve |-> 0, nGetConfig |-> 0, nWorker |-> 0,
     worker |-> "none", status |-> 0, xwc |-> NoHeader, body |-> NoBody,
     late |-> FALSE, listed |-> FALSE, ctype |-> NoHeader]

IdleRequest ==
    [NewRequest([route |-> "", parts |-> <<>>, hdr |-> <<>>,
                 q |-> [pipelineRun |-> "", pod |-> "", tailLines |-> NoParam,
                        sinceSeconds |-> NoParam]]) EXCEPT !.pc = "idle"]

\* http.Error(w, msg, code), and the handler returns.
HttpError(r, code) == [r EXCEPT !.pc = "done", !.status = code, !.body = ErrorBody]

\* namespace := pathParts[0]; resourcePath is pathParts[1:]
NamespaceOf(r) == r.parts[1]
ResourcePath(r) == SubSeq(r.parts, 2, Len(r.parts))

\* strings.HasPrefix(resourcePath, "logs"), on the first segments that occur
HasPrefixLogs(seg) == seg \in {"logs", "logsx"}

\* handlePipelineRunRequest up to the review it submits.
handlePipelineRunRequest(r) ==
    LET callerToken == extractBearerToken(r.hdr)
    IN  IF callerToken = "" THEN HttpError([r EXCEPT !.authz = "failed"], 403)
        ELSE [r EXCEPT !.pc = "ssar", !.authz = "pending",
                       !.ssar = CheckPipelineRunAccess(callerToken, NamespaceOf(r),
                                                       ResourcePath(r)[2])]

\* handlePodRequest up to the review it submits.
handlePodRequest(r) ==
    LET callerToken == extractBearerToken(r.hdr)
    IN  IF callerToken = "" THEN HttpError([r EXCEPT !.authz = "failed"], 403)
        ELSE [r EXCEPT !.pc = "ssar", !.authz = "pending",
                       !.ssar = CheckPodAccess(callerToken, NamespaceOf(r),
                                               ResourcePath(r)[2])]

\* handleLogsRequest with the fault of checking the credential before the
\* pod parameter.
handleLogsRequestAuthzFirst(r) ==
    LET callerToken == extractBearerToken(r.hdr)
    IN  IF callerToken = "" THEN HttpError([r EXCEPT !.authz = "failed"], 403)
        ELSE IF r.q.pod = "" THEN HttpError(r, 400)
        ELSE [r EXCEPT !.pc = "ssar", !.authz = "pending",
                       !.ssar = CheckPodLogsAccess(callerToken, NamespaceOf(r),
                                                   r.q.pod)]

\* handleLogsRequest up to the review it submits.
handleLogsRequest(r) ==
    IF r.q.pod = "" THEN HttpError(r, 400)
    ELSE LET callerToken == extractBearerToken(r.hdr)
         IN  IF callerToken = "" THEN HttpError([r EXCEPT !.authz = "failed"], 403)
             ELSE [r EXCEPT !.pc = "ssar", !.authz = "pending",
                            !.ssar = CheckPodLogsAccess(callerToken, NamespaceOf(r),
                                                        r.q.pod)]

\* handleNamespaceRequest
handleNamespaceRequest(r) ==
    IF Len(r.parts) < 2 THEN HttpError(r, 400)
    ELSE LET rp == ResourcePath(r)
         IN  CASE rp[1] = "pipelineruns" /\ Len(rp) >= 2 -> handlePipelineRunRequest(r)
               [] rp[1] = "pods" /\ Len(rp) >= 2 -> handlePodRequest(r)
               [] HasPrefixLogs(rp[1]) -> handleLogsRequest(r)
               [] OTHER -> HttpError(r, 404)

\* handleHealth
\* handleHealth with the fault of answering 503 while the cache is empty.
handleHealthWhenReady(r) ==
    IF DOMAIN configs = {} THEN HttpError(r, 503)
    ELSE [r EXCEPT !.pc = "done", !.status = 200, !.body = [kind |-> "OK"]]

handleHealth(r) == [r EXCEPT !.pc = "done", !.status = 200, !.body = [kind |-> "OK"]]

\* Handler(): the mux.  /ready goes on to ListClusters, which takes the lock.
Handler(r) ==
    CASE r.route = "health" -> handleHealth(r)
      [] r.route = "ready" -> [r EXCEPT !.pc = "ready"]
      [] OTHER -> handleNamespaceRequest(r)

\* The operation a request is routed to once the review has passed: the
\* switch on subPath of handlePipelineRunRequest and of handlePodRequest, the
\* HasSuffix test of handleLogsRequest.
RouteOf(r) ==
    LET rp == ResourcePath(r)
    IN  CASE rp[1] = "pipelineruns" /\ Len(rp) >= 2 ->
               (IF Len(rp) = 3 /\ rp[3] \in {"resolve", "taskruns", "pods"}
                  THEN rp[3] ELSE "unknown")
          [] rp[1] = "pods" /\ Len(rp) >= 2 ->
               (IF Len(rp) = 3 /\ rp[3] = "status" THEN "podstatus" ELSE "unknown")
          [] OTHER ->
               (IF Len(rp) >= 2 /\ rp[Len(rp)] = "stream" THEN "stream" ELSE "logs")

\* The PipelineRun a handler resolves: the path segment for the
\* pipelineruns/ handlers, the query parameter pipelineRun for the others.
PipelineRunOf(r) ==
    IF r.op \in {"resolve", "taskruns", "pods"} THEN ResourcePath(r)[2]
    ELSE r.q.pipelineRun

\* The pod named by the request: the path segment for pods/, else ?pod=
PodOf(r) == IF r.op = "podstatus" THEN ResourcePath(r)[2] ELSE r.q.pod

\* The handler chosen, up to its call of ResolveWorkerCluster:
\* handlePodStatus, handleLogsFetch and handleLogsStream first want the
\* query parameter pipelineRun.
EnterOperation(r) ==
    LET op == RouteOf(r)
        s == [r EXCEPT !.op = op]
    IN  IF op = "unknown" THEN HttpError(s, 404)
        ELSE IF op \in {"podstatus", "logs", "stream"} /\ r.q.pipelineRun = ""
          THEN HttpError(s, 400)
        ELSE [s EXCEPT !.pc = "resolve"]

\* AfterReview with the fault of dropping the error of Check*Access.
AfterReviewErrDropped(r, err) == EnterOperation(r)

\* AfterReview with the fault of answering 401 Unauthorized.
AfterReviewUnauthorized(r, err) ==
    IF err THEN HttpError(r, 401) ELSE EnterOperation(r)

\* if err := Check*Access(...); err != nil: 403.  Otherwise the handler is
\* entered.
AfterReview(r, err) ==
    IF err THEN HttpError(r, 403) ELSE EnterOperation(r)

\* The status a handler gives when ResolveWorkerCluster returns an error.
ResolveErrorStatus(op) ==
    IF op \in {"resolve", "taskruns", "pods"} THEN 404 ELSE 500

\* handleResolve with the fault of answering 200 whatever the state.
handleResolveAlwaysOK(r, res) ==
    IF res.err THEN HttpError(r, ResolveErrorStatus(r.op))
    ELSE [r EXCEPT !.pc = "done",
                   !.xwc = IF res.wc.name # "" THEN res.wc.name ELSE NoHeader,
                   !.status = 200,
                   !.body = EncodeWorkerCluster(res.wc)]

\* handleResolve with the fault of looking the cluster up in the registry
\* and answering 424 when it is not there.
handleResolveChecksRegistry(r, res) ==
    IF res.err THEN HttpError(r, ResolveErrorStatus(r.op))
    ELSE IF res.wc.state = "Admitted" /\ res.wc.name \notin DOMAIN configs
      THEN HttpError(r, 424)
    ELSE [r EXCEPT !.pc = "done",
                   !.xwc = IF res.wc.name # "" THEN res.wc.name ELSE NoHeader,
                   !.status = IF res.wc.state = "Dispatching" THEN 409 ELSE 200,
                   !.body = EncodeWorkerCluster(res.wc)]

\* handleResolve, from the return of ResolveWorkerCluster to the end.
handleResolve(r, res) ==
    IF res.err THEN HttpError(r, ResolveErrorStatus(r.op))
    ELSE [r EXCEPT !.pc = "done",
                   !.xwc = IF res.wc.name # "" THEN res.wc.name ELSE NoHeader,
                   !.status = IF res.wc.state = "Dispatching" THEN 409 ELSE 200,
                   !.body = EncodeWorkerCluster(res.wc)]

\* AfterResolve with the fault of leaving out the test of State.
AfterResolveNoStateTest(r, res) ==
    IF r.op = "resolve" THEN handleResolve(r, res)
    ELSE IF res.err THEN HttpError(r, ResolveErrorStatus(r.op))
    ELSE [r EXCEPT !.pc = "getconfig"]

\* The sub-resource handlers (handleTaskRuns, handlePipelineRunPods,
\* handlePodStatus, handleLogsFetch, handleLogsStream), from the return of
\* ResolveWorkerCluster to the call of GetConfig.
AfterResolve(r, res) ==
    IF r.op = "resolve" THEN handleResolve(r, res)
    ELSE IF res.err THEN HttpError(r, ResolveErrorStatus(r.op))
    ELSE IF res.wc.state # "Admitted" THEN HttpError(r, 409)
    ELSE [r EXCEPT !.pc = "getconfig"]

\* The call a handler makes on the worker cluster.
WorkerCallOf(r, config) ==
    [host |-> config.host,
     kind |-> CASE r.op = "taskruns" -> "TaskRuns.List"
                [] r.op = "pods" -> "Pods.List"
                [] r.op = "podstatus" -> "Pods.Get"
                [] r.op = "logs" -> "Pods.GetLogs"
                [] OTHER -> "Pods.GetLogs.Follow",
     namespace |-> NamespaceOf(r),
     arg |-> IF r.op \in {"taskruns", "pods"} THEN PipelineRunOf(r) ELSE PodOf(r),
     opts |-> CASE r.op = "logs" -> LogOptions(r.q)
                [] r.op = "stream" -> [NoLogOptions EXCEPT !.follow = TRUE]
                [] OTHER -> NoLogOptions]

\* AfterGetConfig with the fault of answering 404 for a missing config.
AfterGetConfigNotFound(r, got) ==
    IF got.err THEN HttpError(r, 404)
    ELSE [r EXCEPT !.call = WorkerCallOf(r, got.config), !.nWorker = @ + 1,
                   !.pc = "worker"]

\* From the return of GetConfig to the worker call: 424 when there is no
\* config, else a client for that config and its call.
AfterGetConfig(r, got) ==
    IF got.err THEN HttpError(r, 424)
    ELSE [r EXCEPT !.call = WorkerCallOf(r, got.config), !.nWorker = @ + 1,
                   !.pc = "worker"]

\* AfterWorkerCall with the fault of making the call once more after it failed.
AfterWorkerCallRetries(r, callErr) ==
    IF callErr /\ r.nWorker < 2 THEN [r EXCEPT !.nWorker = @ + 1]
    ELSE IF callErr THEN HttpError(r, 500)
    ELSE IF r.op = "stream" THEN [r EXCEPT !.pc = "upgrade"]
    ELSE [r EXCEPT !.pc = "done", !.status = 200, !.xwc = r.wc.name,
                   !.ctype = IF r.op = "logs" THEN "text/plain"
                                              ELSE "application/json",
                   !.body = [kind |-> "downstream", from |-> r.call.host,
                             what |-> r.call.kind]]

\* From the return of the worker call to the response; handleLogsStream goes
\* on to the upgrade and sets no header.
AfterWorkerCall(r, callErr) ==
    IF callErr THEN HttpError(r, 500)
    ELSE IF r.op = "stream" THEN [r EXCEPT !.pc = "upgrade"]
    ELSE [r EXCEPT !.pc = "done", !.status = 200, !.xwc = r.wc.name,
                   !.ctype = IF r.op = "logs" THEN "text/plain"
                                              ELSE "application/json",
                   !.body = [kind |-> "downstream", from |-> r.call.host,
                             what |-> r.call.kind]]

\* upgrader.Upgrade(w, r, nil): it answers 101 with no header of the
\* handler's, or answers the error itself and the handler returns.
AfterUpgrade(r, upgradeErr) ==
    IF upgradeErr THEN [r EXCEPT !.pc = "done", !.status = 400, !.body = ErrorBody]
    ELSE [r EXCEPT !.pc = "relay", !.status = 101]

\* handleReady with the fault of answering 200 whatever the cache holds.
handleReadyAlwaysOK(r, clusters) ==
    [r EXCEPT !.pc = "done", !.status = 200, !.body = [kind |-> "Ready"]]

\* handleReady, from the return of ListClusters.
handleReady(r, clusters) ==
    IF Cardinality(clusters) = 0
      THEN HttpError(r, 503)
      ELSE [r EXCEPT !.pc = "done", !.status = 200, !.body = [kind |-> "Ready"]]

\* No stream open: nothing delivered, nothing sent.
\*   pipe    bytes the worker has delivered and the handler has not read
\*   ended   the worker has ended the stream
\*   all     every byte the worker delivered (history)
\*   buf     buffer[:n] of the Read that last returned
\*   out     the bytes of the messages written to the WebSocket
\*   caller  "connected" or "gone"
\*   how     how the relay loop ended: "", "eof", "read error", "write error"
\*   reads   the number of Reads of the relay loop that returned no error
\*   frames  the messages WriteMessage has sent, in order
\*   logsOpen   req.Stream has returned logs and logs.Close() has not run
\*   connOpen   Upgrade has returned conn and conn.Close() has not run
NoStream ==
    [pipe |-> <<>>, ended |-> FALSE, all |-> <<>>, buf |-> <<>>, out |-> <<>>,
     caller |-> "connected", how |-> "", reads |-> 0, frames |-> <<>>,
     logsOpen |-> FALSE, connOpen |-> FALSE]

\* The deferred calls with the fault of closing the connection alone.
DeferredConnOnly(st) == [st EXCEPT !.connOpen = FALSE]

\* The handler returns: defer conn.Close() (if Upgrade had succeeded), then
\* defer logs.Close().
Deferred(st) == [st EXCEPT !.connOpen = FALSE, !.logsOpen = FALSE]

\* No /resolve answered yet.
\*   key     the caller's token, the namespace and the PipelineRun of the
\*           last /resolve for which the hub answered the Workloads List
\*   status, body   what that request was answered
\*   wc      what ResolveWorkerCluster returned to it
\*   seen    the Workloads on the hub at that List
\*   before  the status of the /resolve answered before that one
NoHist ==
    [key |-> <<>>, status |-> 0, body |-> NoBody, wc |-> NoWorkerCluster,
     seen |-> <<>>, before |-> 0]

---------------------------------------------------------------------------
(* The requests that arrive *)

NoQuery == [pipelineRun |-> "", pod |-> "", tailLines |-> NoParam,
            sinceSeconds |-> NoParam]
Headers == {<<>>, <<"Basic", "tokA">>, <<"Bearer", "tokA">>, <<"bearer", "tokB">>}

PipelineRunPaths ==
    {<<Namespace, "pipelineruns", PipelineRunName, sub>> :
        sub \in {"resolve", "taskruns", "pods", "bogus"}}
PodPaths == {<<Namespace, "pods", PodName, "status">>}
LogsPaths == {<<Namespace, "logs">>, <<Namespace, "logs", "stream">>}
OtherPaths == {<<Namespace>>, <<Namespace, "nodes">>}

ApiInputs ==
    [route : {"namespaces"}, parts : PipelineRunPaths \cup OtherPaths,
     hdr : Headers, q : {NoQuery}]
    \cup [route : {"namespaces"}, parts : PodPaths, hdr : Headers,
          q : [pipelineRun : {PipelineRunName, ""}, pod : {""},
               tailLines : {NoParam}, sinceSeconds : {NoParam}]]
    \cup [route : {"namespaces"}, parts : LogsPaths, hdr : Headers,
          q : [pipelineRun : {PipelineRunName, ""}, pod : {PodName, ""},
               tailLines : {NoParam}, sinceSeconds : {NoParam}]]

ReqInputs ==
    ApiInputs \cup [route : {"health", "ready"}, parts : {<<>>}, hdr : {<<>>},
                    q : {NoQuery}]

---------------------------------------------------------------------------
(* The request's steps *)

\* The request arrives; the handler runs to its first blocking call.
ReqStart ==
    /\ req.pc = "idle"
    /\ \E in \in ReqInputs : req' = Handler(NewRequest(in))
    /\ UNCHANGED <<hist, stream, hubVars, regVars>>

\* The probes: /health and /ready, with or without a credential.
ProbeInputs ==
    [route : {"health", "ready"}, parts : {<<>>},
     hdr : {<<>>, <<"Bearer", "tokB">>}, q : {NoQuery}]

\* A probe arrives.
ReqStartProbe ==
    /\ req.pc = "idle"
    /\ \E in \in ProbeInputs : req' = Handler(NewRequest(in))
    /\ UNCHANGED <<hist, stream, hubVars, regVars>>

\* SelfSubjectAccessReviews().Create returns, and Check*Access with it.
ReqReview ==
    /\ req.pc = "ssar"
    /\ \E createErr \in BOOLEAN :
          LET err == ~ReviewPasses(req.ssar, createErr)
          IN  req' = AfterReview([req EXCEPT !.authz = IF err THEN "failed" ELSE "ok"],
                                 err)
    /\ UNCHANGED <<hist, stream, hubVars, regVars>>

\* ResolveWorkerCluster returns.
ReqResolve ==
    /\ req.pc = "resolve"
    /\ \E listErr \in BOOLEAN :
          LET res == ResolveWorkerCluster(listErr, NamespaceOf(req), PipelineRunOf(req))
          IN  req' = AfterResolve([req EXCEPT !.nResolve = @ + 1, !.wc = res.wc], res)
    /\ UNCHANGED <<hist, stream, hubVars, regVars>>

\* GetConfig: RLock (not while LoadConfigs holds the lock), read, RUnlock.
ReqGetConfig ==
    /\ req.pc = "getconfig"
    /\ mu # "W"
    /\ LET got == GetConfig(req.wc.name)
       IN  req' = AfterGetConfig([req EXCEPT !.nGetConfig = @ + 1,
                                             !.cfgName = req.wc.name,
                                             !.config = got.config], got)
    /\ UNCHANGED <<hist, stream, hubVars, regVars>>

\* The worker cluster's call returns.
ReqWorker ==
    /\ req.pc = "worker"
    /\ \E callErr \in BOOLEAN :
          req' = AfterWorkerCall([req EXCEPT !.worker = IF callErr THEN "failed" ELSE "ok"],
                                 callErr)
    /\ UNCHANGED <<hist, stream, hubVars, regVars>>

\* handleLogsStream: the upgrade to WebSocket.
ReqUpgrade ==
    /\ req.pc = "upgrade"
    /\ \E upgradeErr \in BOOLEAN : req' = AfterUpgrade(req, upgradeErr)
    /\ UNCHANGED <<hist, stream, hubVars, regVars>>

\* handleLogsStream: the relay loop ends and the handler returns.
ReqRelayEnd ==
    /\ req.pc = "relay"
    /\ req' = [req EXCEPT !.pc = "done"]
    /\ UNCHANGED <<hist, stream, hubVars, regVars>>

\* handleReady: ListClusters under RLock.
ReqReady ==
    /\ req.pc = "ready"
    /\ mu # "W"
    /\ req' = handleReady(req, ListClusters)
    /\ UNCHANGED <<hist, stream, hubVars, regVars>>

\* The response has been sent and the request's goroutine ends; the server
\* waits for the next request.
ReqEnd ==
    /\ req.pc = "done"
    /\ req' = IdleRequest
    /\ stream' = NoStream
    /\ UNCHANGED <<hist, hubVars, regVars>>

---------------------------------------------------------------------------
(* handleLogsStream: the relay loop, read by read *)

\* The size of the relay's buffer, make([]byte, 1024), scaled down.
BufSize == 2

Min(a, b) == IF a < b THEN a ELSE b

\* req.Stream has returned the worker's follow-stream and the deferred
\* logs.Close() has not run yet.
StreamOpen ==
    \/ req.op = "stream" /\ req.pc \in {"upgrade", "relay", "relaywrite"}
    \/ req.op = "logs" /\ req.pc \in {"copy", "copywrite"}

\* The worker cluster delivers one more byte of the pod's log; byte k is k.
UpstreamProduce ==
    /\ StreamOpen
    /\ ~stream.ended
    /\ Len(stream.all) < MaxBytes
    /\ LET b == Len(stream.all) + 1
       IN  stream' = [stream EXCEPT !.pipe = Append(@, b), !.all = Append(@, b)]
    /\ UNCHANGED <<hist, hubVars, regVars, req>>

\* The worker cluster ends the follow-stream (the container has exited).
UpstreamEnd ==
    /\ StreamOpen
    /\ ~stream.ended
    /\ stream' = [stream EXCEPT !.ended = TRUE]
    /\ UNCHANGED <<hist, hubVars, regVars, req>>

\* The caller goes away during the relay.  The connection was hijacked by
\* the upgrade, so nothing cancels r.Context() and nothing reads from the
\* WebSocket: the handler learns of it only from a failing WriteMessage.
CallerDisconnect ==
    /\ req.pc \in {"relay", "relaywrite", "copy", "copywrite"}
    /\ stream.caller = "connected"
    /\ stream' = [stream EXCEPT !.caller = "gone"]
    /\ UNCHANGED <<hist, hubVars, regVars, req>>

\* n, err := logs.Read(buffer) returns: some bytes and no error, or
\* io.EOF with the bytes that were left (an io.Reader may return both, and
\* may return 0 bytes with io.EOF); on io.EOF the loop breaks, before
\* WriteMessage.  Read blocks while the stream is open and has no bytes.
RelayRead ==
    /\ req.pc = "relay"
    /\ \/ \E n \in 1..Min(BufSize, Len(stream.pipe)) :
            /\ stream' = [stream EXCEPT
                              !.buf = SubSeq(stream.pipe, 1, n),
                              !.pipe = SubSeq(stream.pipe, n + 1, Len(stream.pipe)),
                              !.reads = @ + 1]
            /\ req' = [req EXCEPT !.pc = "relaywrite"]
       \/ /\ stream.ended
          /\ Len(stream.pipe) <= BufSize
          /\ stream' = Deferred([stream EXCEPT !.buf = stream.pipe, !.pipe = <<>>,
                                               !.how = "eof"])
          /\ req' = [req EXCEPT !.pc = "done"]
    /\ UNCHANGED <<hist, hubVars, regVars>>

\* logs.Read returns an error other than io.EOF (the connection to the
\* worker cluster breaks): logged, and the loop breaks.
RelayReadFails ==
    /\ req.pc = "relay"
    /\ stream' = Deferred([stream EXCEPT !.how = "read error"])
    /\ req' = [req EXCEPT !.pc = "done"]
    /\ UNCHANGED <<hist, hubVars, regVars>>

\* RelayWrite with the fault of sending every byte as a message of its own.
RelayWriteByteFrames ==
    /\ req.pc = "relaywrite"
    /\ \/ /\ stream' = [stream EXCEPT
                            !.out = IF stream.caller = "connected"
                                      THEN @ \o stream.buf ELSE @,
                            !.frames = @ \o [i \in 1..Len(stream.buf) |->
                                                <<stream.buf[i]>>]]
          /\ req' = [req EXCEPT !.pc = "relay"]
       \/ /\ stream.caller = "gone"
          /\ stream' = Deferred([stream EXCEPT !.how = "write error"])
          /\ req' = [req EXCEPT !.pc = "done"]
    /\ UNCHANGED <<hist, hubVars, regVars>>

\* conn.WriteMessage(websocket.TextMessage, buffer[:n]) returns: nil, and
\* the loop goes on (to a caller that has gone a write may still succeed,
\* into the socket's buffer), or an error, and the loop breaks.
RelayWrite ==
    /\ req.pc = "relaywrite"
    /\ \/ /\ stream' = [stream EXCEPT
                            !.out = IF stream.caller = "connected"
                                      THEN @ \o stream.buf ELSE @,
                            !.frames = Append(@, stream.buf)]
          /\ req' = [req EXCEPT !.pc = "relay"]
       \/ /\ stream.caller = "gone"
          /\ stream' = Deferred([stream EXCEPT !.how = "write error"])
          /\ req' = [req EXCEPT !.pc = "done"]
    /\ UNCHANGED <<hist, hubVars, regVars>>

\* handleLogsFetch: req.Stream returns (as ReqWorker); after the headers
\* and the status the handler goes on to io.Copy(w, logs).
ReqWorkerLogs ==
    /\ req.pc = "worker"
    /\ \E callErr \in BOOLEAN :
          LET r == AfterWorkerCall([req EXCEPT !.worker = IF callErr THEN "failed"
                                                                    ELSE "ok"],
                                   callErr)
          IN  /\ req' = IF req.op = "logs" /\ ~callErr THEN [r EXCEPT !.pc = "copy"]
                        ELSE r
              /\ stream' = IF req.op \in {"logs", "stream"} /\ ~callErr
                             THEN [stream EXCEPT !.logsOpen = TRUE]
                             ELSE stream
    /\ UNCHANGED <<hist, hubVars, regVars>>

\* handleLogsStream: upgrader.Upgrade returns (as ReqUpgrade): conn, or an
\* error, and then the handler returns.
ReqUpgradeStream ==
    /\ req.pc = "upgrade"
    /\ \E upgradeErr \in BOOLEAN :
          /\ req' = AfterUpgrade(req, upgradeErr)
          /\ stream' = IF upgradeErr THEN Deferred(stream)
                       ELSE [stream EXCEPT !.connOpen = TRUE]
    /\ UNCHANGED <<hist, hubVars, regVars>>

\* CopyRead with the fault of the relay loop: on io.EOF it stops before it
\* writes the bytes that came with it.
CopyReadDropsLast ==
    /\ req.pc = "copy"
    /\ \/ \E n \in 1..Min(BufSize, Len(stream.pipe)) :
            /\ stream' = [stream EXCEPT
                              !.buf = SubSeq(stream.pipe, 1, n),
                              !.pipe = SubSeq(stream.pipe, n + 1, Len(stream.pipe))]
            /\ req' = [req EXCEPT !.pc = "copywrite"]
       \/ /\ stream.ended
          /\ Len(stream.pipe) <= BufSize
          /\ stream' = Deferred([stream EXCEPT !.buf = stream.pipe, !.pipe = <<>>,
                                               !.how = "eof"])
          /\ req' = [req EXCEPT !.pc = "done"]
    /\ UNCHANGED <<hist, hubVars, regVars>>

\* io.Copy: nr, er := src.Read(buf).  With nr > 0 the bytes are written
\* first, whatever er is; with nr = 0 and io.EOF the copy is over.
CopyRead ==
    /\ req.pc = "copy"
    /\ \/ \E n \in 1..Min(BufSize, Len(stream.pipe)) :
            /\ stream' = [stream EXCEPT
                              !.buf = SubSeq(stream.pipe, 1, n),
                              !.pipe = SubSeq(stream.pipe, n + 1, Len(stream.pipe))]
            /\ req' = [req EXCEPT !.pc = "copywrite"]
       \/ /\ stream.ended
          /\ Len(stream.pipe) <= BufSize
          /\ stream' = LET st == [stream EXCEPT !.buf = stream.pipe,
                                                !.pipe = <<>>, !.how = "eof"]
                       IN  IF stream.pipe # <<>> THEN st ELSE Deferred(st)
          /\ req' = [req EXCEPT !.pc = IF stream.pipe # <<>> THEN "copywrite"
                                                             ELSE "done"]
    /\ UNCHANGED <<hist, hubVars, regVars>>

\* io.Copy: the Read fails with an error other than io.EOF (the worker's
\* connection breaks, or r.Context() is cancelled because the caller went
\* away); io.Copy returns it, it is logged and the handler returns.
CopyReadFails ==
    /\ req.pc = "copy"
    /\ stream' = Deferred([stream EXCEPT !.how = "read error"])
    /\ req' = [req EXCEPT !.pc = "done"]
    /\ UNCHANGED <<hist, hubVars, regVars>>

\* io.Copy: nw, ew := dst.Write(buf[0:nr]).  After a write that succeeded
\* the copy goes on, or is over if the Read had given io.EOF; a write that
\* fails (the caller is gone, the server's write deadline has passed) ends it.
CopyWrite ==
    /\ req.pc = "copywrite"
    /\ \/ /\ stream' = LET st == [stream EXCEPT
                                         !.out = IF stream.caller = "connected"
                                                   THEN @ \o stream.buf ELSE @,
                                         !.buf = <<>>]
                       IN  IF stream.how = "eof" THEN Deferred(st) ELSE st
          /\ req' = [req EXCEPT !.pc = IF stream.how = "eof" THEN "done" ELSE "copy"]
       \/ /\ stream' = Deferred([stream EXCEPT !.how = "write error"])
          /\ req' = [req EXCEPT !.pc = "done"]
    /\ UNCHANGED <<hist, hubVars, regVars>>

\* The duration Config.RequestTimeout has passed since the request arrived,
\* while the handler waits for the hub or for a worker cluster.  No handler
\* and no client reads Config.RequestTimeout: every call is made with
\* r.Context() as it is, so nothing else happens.
RequestTimeoutElapses ==
    /\ req.pc \in {"ssar", "resolve", "worker"}
    /\ ~req.late
    /\ req' = [req EXCEPT !.late = TRUE]
    /\ UNCHANGED <<hist, stream, hubVars, regVars>>

---------------------------------------------------------------------------
(* Requests one after another, with what the last /resolve was answered *)

\* /resolve and /taskruns of the one PipelineRun, by tokA.
RepeatInputs ==
    [route : {"namespaces"},
     parts : {<<Namespace, "pipelineruns", PipelineRunName, sub>> :
                 sub \in {"resolve", "taskruns"}},
     hdr : {<<"Bearer", "tokA">>}, q : {NoQuery}]

ReqStartRepeat ==
    /\ req.pc = "idle"
    /\ \E in \in RepeatInputs : req' = Handler(NewRequest(in))
    /\ UNCHANGED <<hist, stream, hubVars, regVars>>

\* ResolveWorkerCluster returns (as ReqResolve), and it is noted whether the
\* hub answered the List and, for /resolve, what the request is answered.
ReqResolveNoted ==
    /\ req.pc = "resolve"
    /\ \E listErr \in BOOLEAN :
          LET res == ResolveWorkerCluster(listErr, NamespaceOf(req), PipelineRunOf(req))
              r == AfterResolve([req EXCEPT !.nResolve = @ + 1, !.wc = res.wc], res)
          IN  /\ req' = [r EXCEPT !.listed = ~listErr]
              /\ hist' = IF req.op = "resolve" /\ ~listErr
                           THEN [key |-> <<req.ssar.cred, NamespaceOf(req),
                                           PipelineRunOf(req)>>,
                                 status |-> r.status, body |-> r.body, wc |-> res.wc,
                                 seen |-> workloads, before |-> hist.status]
                           ELSE hist
    /\ UNCHANGED <<stream, hubVars, regVars>>

\* The hub's RBAC changes: the caller's access is taken away.
HubRevoke(tok) ==
    /\ tok \notin revoked
    /\ revoked' = revoked \cup {tok}
    /\ UNCHANGED <<hist, stream, workloads, mkClusters, secrets, regVars, req>>

---------------------------------------------------------------------------
(* Bounded log fetches with ?tailLines= and ?sinceSeconds= *)

ParamChars == {"0", "2", "-", "+", "x"}

\* The values of a parameter: absent, or up to MaxParamLen characters
ParamStrings == UNION {[1..n -> ParamChars] : n \in 0..MaxParamLen}

\* A bounded log fetch by tokA with any value of one parameter, the other
\* absent or "2".
LogsInputs ==
    LET few == {NoParam, <<"2">>}
        qs == [pipelineRun : {PipelineRunName}, pod : {PodName},
               tailLines : ParamStrings, sinceSeconds : few]
              \cup [pipelineRun : {PipelineRunName}, pod : {PodName},
                    tailLines : few, sinceSeconds : ParamStrings]
    IN  [route : {"namespaces"}, parts : {<<Namespace, "logs">>},
         hdr : {<<"Bearer", "tokA">>}, q : qs]

ReqStartLogs ==
    /\ req.pc = "idle"
    /\ \E in \in LogsInputs : req' = Handler(NewRequest(in))
    /\ UNCHANGED <<hist, stream, hubVars, regVars>>

---------------------------------------------------------------------------
(* The Workloads on the hub *)

Workload(name, namespace, kind, owner, admission, clusterName) ==
    [name |-> name, namespace |-> namespace,
     ownerReferences |-> <<[kind |-> kind, name |-> owner]>>,
     admission |-> admission, clusterName |-> clusterName]

\* Present from the start: a Workload of the same PipelineRun name in
\* another namespace, and one in the namespace owned by a Job of that name.
InitialWorkloads ==
    <<Workload("w0", OtherNamespace, "PipelineRun", PipelineRunName, TRUE, "c1"),
      Workload("w1", Namespace, "Job", PipelineRunName, TRUE, "c2")>>

\* Kueue creates the PipelineRun's Workload, not yet admitted.
HubCreateWorkload ==
    /\ Len(workloads) = Len(InitialWorkloads)
    /\ workloads' = Append(workloads,
                           Workload("w2", Namespace, "PipelineRun", PipelineRunName,
                                    FALSE, NilString))
    /\ UNCHANGED <<hist, stream, revoked, mkClusters, secrets, regVars, req>>

\* Kueue admits it; the cluster name may be missing or empty.
HubAdmit ==
    /\ Len(workloads) > Len(InitialWorkloads)
    /\ ~workloads[Len(workloads)].admission
    /\ \E cn \in {NilString, ""} \cup ClusterNames :
          workloads' = [workloads EXCEPT ![Len(workloads)].admission = TRUE,
                                         ![Len(workloads)].clusterName = cn]
    /\ UNCHANGED <<hist, stream, revoked, mkClusters, secrets, regVars, req>>

---------------------------------------------------------------------------
(* The specification *)

\* Init with the fault of a registry handed over with its cache filled.
InitPreloaded ==
    /\ workloads = InitialWorkloads
    /\ mkClusters = [c \in ClusterNames |->
                        [locationType |-> "Secret", location |-> SecretOf(c)]]
    /\ secrets = [n \in {SecretOf(c) : c \in ClusterNames} |->
                     [k \in {"kubeconfig"} |->
                         KubeconfigOf(CHOOSE c \in ClusterNames : SecretOf(c) = n)]]
    /\ configs = [c \in ClusterNames |->
                     RESTConfigFromKubeConfig(KubeconfigOf(c)).config]
    /\ mu = "free"
    /\ wpc = "load"
    /\ wcaller = "initial"
    /\ lcItems = <<>>
    /\ watch = "none"
    /\ lcDone = <<>>
    /\ lcBefore = NoConfigs
    /\ events = <<>>
    /\ readers = IdleReaders
    /\ req = IdleRequest
    /\ revoked = {}
    /\ stream = NoStream
    /\ hist = NoHist

Init ==
    /\ workloads = InitialWorkloads
    /\ mkClusters = [c \in ClusterNames |->
                        [locationType |-> "Secret", location |-> SecretOf(c)]]
    /\ secrets = [n \in {SecretOf(c) : c \in ClusterNames} |->
                     [k \in {"kubeconfig"} |->
                         KubeconfigOf(CHOOSE c \in ClusterNames : SecretOf(c) = n)]]
    /\ configs = NoConfigs
    /\ mu = "free"
    /\ wpc = "load"
    /\ wcaller = "initial"
    /\ lcItems = <<>>
    /\ watch = "none"
    /\ lcDone = <<>>
    /\ lcBefore = NoConfigs
    /\ events = <<>>
    /\ readers = IdleReaders
    /\ req = IdleRequest
    /\ revoked = {}
    /\ stream = NoStream
    /\ hist = NoHist

Next ==
    \/ LoadConfigsLock
    \/ LoadConfigsList
    \/ LoadConfigsItem
    \/ LoadConfigsReturn
    \/ WatchOpen
    \/ WatchReload
    \/ WatchDeleted
    \/ WatchEnd
    \/ \E c \in ChangingClusters : HubRegister(c)
    \/ \E c \in ChangingClusters : HubUnregister(c)
    \/ HubCloseWatch
    \/ HubCreateWorkload
    \/ HubAdmit
    \/ ReqStart
    \/ ReqReview
    \/ ReqResolve
    \/ ReqGetConfig
    \/ ReqWorker
    \/ ReqUpgrade
    \/ ReqRelayEnd
    \/ ReqReady
    \/ ReqEnd

Spec == Init /\ [][Next]_vars

\* The registry on its own: its goroutine, its readers lock step by lock
\* step, and a hub whose registrations and secrets change and break.
NextRegistry ==
    \/ LoadConfigsLock
    \/ LoadConfigsList
    \/ LoadConfigsItem
    \/ LoadConfigsReturn
    \/ WatchOpen
    \/ WatchReload
    \/ WatchDeleted
    \/ WatchEnd
    \/ GetConfigRLock
    \/ GetConfigReturn
    \/ ListClustersRLock
    \/ ListClustersReturn
    \/ \E c \in ChangingClusters : HubRegister(c)
    \/ \E c \in ChangingClusters : HubUnregister(c)
    \/ \E c \in ChangingClusters : HubModify(c)
    \/ \E c \in ChangingClusters : HubPutSecret(c)
    \/ \E c \in ChangingClusters : HubDeleteSecret(c)
    \/ HubCloseWatch

SpecRegistry == Init /\ [][NextRegistry]_vars

\* The probes against the registry, with every registration coming and
\* going.
NextProbes ==
    \/ LoadConfigsLock
    \/ LoadConfigsList
    \/ LoadConfigsItem
    \/ LoadConfigsReturn
    \/ WatchOpen
    \/ WatchReload
    \/ WatchDeleted
    \/ WatchEnd
    \/ GetConfigRLock
    \/ GetConfigReturn
    \/ \E c \in ClusterNames : HubRegister(c)
    \/ \E c \in ClusterNames : HubUnregister(c)
    \/ HubCloseWatch
    \/ ReqStartProbe
    \/ ReqReady
    \/ ReqEnd

SpecProbes == Init /\ [][NextProbes]_vars

\* The requests with the log stream relayed read by read, the registry
\* after its initial load.
NextStream ==
    \/ LoadConfigsLock
    \/ LoadConfigsList
    \/ LoadConfigsItem
    \/ LoadConfigsReturn
    \/ WatchOpen
    \/ HubCreateWorkload
    \/ HubAdmit
    \/ ReqStart
    \/ ReqReview
    \/ ReqResolve
    \/ ReqGetConfig
    \/ ReqWorkerLogs
    \/ ReqUpgradeStream
    \/ ReqReady
    \/ ReqEnd
    \/ RequestTimeoutElapses
    \/ CopyRead
    \/ CopyReadFails
    \/ CopyWrite
    \/ UpstreamProduce
    \/ UpstreamEnd
    \/ CallerDisconnect
    \/ RelayRead
    \/ RelayReadFails
    \/ RelayWrite

SpecStream == Init /\ [][NextStream]_vars

\* Bounded log fetches with their parameters, the registry after its
\* initial load.
NextLogs ==
    \/ LoadConfigsLock
    \/ LoadConfigsList
    \/ LoadConfigsItem
    \/ LoadConfigsReturn
    \/ WatchOpen
    \/ HubCreateWorkload
    \/ HubAdmit
    \/ ReqStartLogs
    \/ ReqReview
    \/ ReqResolve
    \/ ReqGetConfig
    \/ ReqWorker
    \/ ReqEnd

SpecLogs == Init /\ [][NextLogs]_vars

\* Requests for one PipelineRun one after another, while its Workload is
\* created and admitted, the caller's access is taken away, and the
\* registry follows the registrations.
NextRepeat ==
    \/ LoadConfigsLock
    \/ LoadConfigsList
    \/ LoadConfigsItem
    \/ LoadConfigsReturn
    \/ WatchOpen
    \/ WatchReload
    \/ WatchDeleted
    \/ WatchEnd
    \/ \E c \in ChangingClusters : HubRegister(c)
    \/ \E c \in ChangingClusters : HubUnregister(c)
    \/ HubCloseWatch
    \/ HubCreateWorkload
    \/ HubAdmit
    \/ HubRevoke("tokA")
    \/ ReqStartRepeat
    \/ ReqReview
    \/ ReqResolveNoted
    \/ ReqGetConfig
    \/ ReqWorker
    \/ ReqEnd

SpecRepeat == Init /\ [][NextRepeat]_vars

\* The same with the scheduling the Go runtime gives: a goroutine that can
\* take its next step takes it.  The steps that wait for another party (the
\* hub, a worker cluster, the caller) are not among them.
SpecStreamLive ==
    /\ Init
    /\ [][NextStream]_vars
    /\ WF_vars(RelayRead)
    /\ WF_vars(RelayWrite)
    /\ WF_vars(CopyRead)
    /\ WF_vars(CopyWrite)
    /\ WF_vars(ReqGetConfig)
    /\ WF_vars(ReqReady)
    /\ WF_vars(ReqEnd)
    /\ WF_vars(LoadConfigsLock)
    /\ WF_vars(LoadConfigsItem)
    /\ WF_vars(LoadConfigsReturn)

---------------------------------------------------------------------------
(* Properties *)

\* The operations that go to a worker cluster
SubOps == {"taskruns", "pods", "podstatus", "logs", "stream"}

\* The index in workloads of the first Workload of the namespace that has an
\* owner reference of kind PipelineRun naming the job; 0 when there is none.
MatchIndex(ns, job) ==
    LET hits == {i \in 1..Len(workloads) :
                    /\ workloads[i].namespace = ns
                    /\ [kind |-> "PipelineRun", name |-> job] \in
                          {workloads[i].ownerReferences[k] :
                              k \in 1..Len(workloads[i].ownerReferences)}}
    IN  IF hits = {} THEN 0 ELSE CHOOSE i \in hits : \A j \in hits : i <= j

\* The host of the worker cluster registered under a name
HostOf(c) == IF c = "c1" THEN "https://c1" ELSE IF c = "c2" THEN "https://c2" ELSE ""

\* C1: a request under /api/v1/namespaces/ whose authorization check has not
\* passed (it failed, is still pending or was never reached) has made no
\* call of ResolveWorkerCluster, none of GetConfig and none on a worker
\* cluster: the check comes before all three.
C1_AuthzFirst ==
    (req.route = "namespaces" /\ req.authz # "ok") =>
        /\ req.nResolve = 0
        /\ req.nGetConfig = 0
        /\ req.nWorker = 0
        /\ req.call = NoCall

\* a review was submitted and failed, and the request has been answered
C1_Witness ==
    /\ req.authz = "failed"
    /\ req.ssar # NoReview
    /\ req.pc = "done"

\* C2: ResolveWorkerCluster(namespace, job), when the List succeeds, returns
\* an error if no Workload of the namespace has an owner reference of kind
\* PipelineRun naming the job; Dispatching with an empty cluster name and the
\* Workload's name if the matching Workload has no admission; Admitted with
\* Name = Status.ClusterName if it has one and the cluster name is non-empty.
C2_Resolve ==
    \A ns \in {Namespace, OtherNamespace}, job \in {PipelineRunName, "pr2"} :
        LET i == MatchIndex(ns, job)
            res == ResolveWorkerCluster(FALSE, ns, job)
        IN  /\ i = 0 => res.err
            /\ (i # 0 /\ ~workloads[i].admission) =>
                  /\ ~res.err
                  /\ res.wc.state = "Dispatching"
                  /\ res.wc.name = ""
                  /\ res.wc.workloadName = workloads[i].name
            /\ (i # 0 /\ workloads[i].admission
                      /\ workloads[i].clusterName \notin {NilString, ""}) =>
                  /\ ~res.err
                  /\ res.wc.state = "Admitted"
                  /\ res.wc.name = workloads[i].clusterName

\* a request has resolved its PipelineRun to the cluster it was admitted to
C2_Witness ==
    /\ req.nResolve = 1
    /\ req.wc.state = "Admitted"
    /\ req.wc.name = "c1"
    /\ MatchIndex(Namespace, PipelineRunName) # 0

C4_NotAdmitted ==
    (req.op \in SubOps /\ req.nResolve = 1 /\ req.wc.state \notin {"", "Admitted"}) =>
        /\ req.pc = "done"
        /\ req.status = 409
        /\ req.nGetConfig = 0
        /\ req.nWorker = 0

\* the pods of a PipelineRun that is still Dispatching were asked for
C4_Witness ==
    /\ req.op = "pods"
    /\ req.wc.state = "Dispatching"
    /\ req.status = 409

\* C5: when a sub-resource request's GetConfig finds no entry for the
\* resolved cluster name in the cache, the request is answered 424 and makes
\* no worker-cluster call.
C5_Step ==
    (req.pc = "getconfig" /\ req'.pc # "getconfig" /\ req.wc.name \notin DOMAIN configs) =>
        /\ req.op \in SubOps
        /\ req'.pc = "done"
        /\ req'.status = 424
        /\ req'.nWorker = 0
        /\ req'.call = NoCall
C5_MissingConfig == [][C5_Step]_vars

\* logs were asked for a PipelineRun admitted to c2 while c2 was not in the
\* cache
C5_Witness ==
    /\ req.op = "logs"
    /\ req.wc.name = "c2"
    /\ req.nGetConfig = 1
    /\ req.status = 424
    /\ "c2" \notin DOMAIN configs

\* C6: for a Workload with admission set and a nil or empty cluster name
\* ResolveWorkerCluster returns Admitted with an empty Name and no error; a
\* sub-resource request that resolved to it makes no worker-cluster call and
\* is answered 424; /resolve for it is answered 200 with no X-Worker-Cluster
\* header.
C6_EmptyClusterName ==
    /\ \A ns \in {Namespace, OtherNamespace}, job \in {PipelineRunName, "pr2"} :
          LET i == MatchIndex(ns, job)
          IN  (i # 0 /\ workloads[i].admission
                     /\ workloads[i].clusterName \in {NilString, ""}) =>
                 ResolveWorkerCluster(FALSE, ns, job) =
                     [err |-> FALSE,
                      wc |-> [name |-> "", state |-> "Admitted",
                              workloadName |-> workloads[i].name]]
    /\ (req.nResolve = 1 /\ req.wc.state = "Admitted" /\ req.wc.name = "") =>
          IF req.op = "resolve"
            THEN req.pc = "done" /\ req.status = 200 /\ req.xwc = NoHeader
            ELSE /\ req.pc \in {"getconfig", "done"}
                 /\ req.nWorker = 0
                 /\ req.call = NoCall
                 /\ req.pc = "done" => req.status = 424

\* the TaskRuns of a PipelineRun admitted with a nil cluster name were asked
\* for
C6_Witness ==
    /\ req.op = "taskruns"
    /\ req.wc.state = "Admitted"
    /\ req.wc.name = ""
    /\ req.status = 424
    /\ MatchIndex(Namespace, PipelineRunName) # 0
    /\ workloads[Len(workloads)].clusterName = NilString

\* C7: /resolve for an authorized caller is answered 404 when the job has no
\* Workload (or the resolver fails), 409 with the body {state: Dispatching,
\* workloadName} and no cluster name when it is Dispatching, 200 with the
\* assignment as body when it is Admitted.
C7_Step ==
    (req.pc = "resolve" /\ req.op = "resolve" /\ req.authz = "ok" /\ req'.pc # "resolve") =>
        LET i == MatchIndex(NamespaceOf(req), PipelineRunOf(req))
        IN  /\ req'.pc = "done"
            /\ i = 0 => req'.status = 404
            /\ req'.wc = NoWorkerCluster => req'.status = 404
            /\ req'.wc.state = "Dispatching" =>
                  /\ req'.status = 409
                  /\ req'.body = [state |-> "Dispatching",
                                  workloadName |-> workloads[i].name]
            /\ req'.wc.state = "Admitted" =>
                  /\ req'.status = 200
                  /\ req'.body.state = "Admitted"
                  /\ req'.body.workloadName = workloads[i].name
                  /\ workloads[i].clusterName \notin {NilString, ""} =>
                        req'.body.name = workloads[i].clusterName
C7_Resolve == [][C7_Step]_vars

\* /resolve was answered 409 for a Dispatching PipelineRun
C7_Witness ==
    /\ req.op = "resolve"
    /\ req.status = 409
    /\ req.body = [state |-> "Dispatching", workloadName |-> "w2"]

\* The request carries no bearer credential
NoBearer(hdr) ==
    \/ hdr = <<>>
    \/ Len(hdr) # 2
    \/ hdr[1] \notin {"Bearer", "bearer"}
    \/ hdr[2] = ""

\* The request gets as far as the authorization check: its path names
\* pipelineruns/ or pods/ with a name, or it is a logs request with ?pod=
ReachesAuthz(r) ==
    \/ Len(r.parts) >= 3 /\ r.parts[2] \in {"pipelineruns", "pods"}
    \/ Len(r.parts) >= 2 /\ r.parts[2] = "logs" /\ r.q.pod # ""

C9_CallerScopedReview ==
    /\ req.ssar # NoReview =>
          /\ Len(req.hdr) = 2
          /\ req.ssar.cred = req.hdr[2]
          /\ req.ssar.cred # "proxy-sa"
          /\ req.ssar.verb = "get"
          /\ req.ssar.namespace = req.parts[1]
          /\ req.parts[2] = "pipelineruns" =>
                /\ req.ssar.group = "tekton.dev"
                /\ req.ssar.resource = "pipelineruns"
                /\ req.ssar.name = req.parts[3]
          /\ req.parts[2] = "pods" =>
                /\ req.ssar.group = ""
                /\ req.ssar.resource = "pods"
                /\ req.ssar.name = req.parts[3]
          /\ req.parts[2] = "logs" =>
                /\ req.ssar.group = ""
                /\ req.ssar.resource = "pods/log"
                /\ req.ssar.name = req.q.pod
    /\ req.op # "" =>
          /\ req.authz = "ok"
          /\ req.op \in {"resolve", "taskruns", "pods"} =>
                req.ssar.resource = "pipelineruns"
          /\ req.op = "podstatus" => req.ssar.resource = "pods"
          /\ req.op \in {"logs", "stream"} => req.ssar.resource = "pods/log"

\* a log stream was authorized by a review of pods/log with the caller's token
C9_Witness ==
    /\ req.op = "stream"
    /\ req.authz = "ok"
    /\ req.ssar = [cred |-> "tokA", namespace |-> Namespace, verb |-> "get",
                   group |-> "", resource |-> "pods/log", name |-> PodName]

\* C10, as stated: every successful response of a request that called a
\* worker cluster (200, or 101 for the log stream's upgrade) carries
\* X-Worker-Cluster set to the resolved cluster name.
C10_HeaderOnWorkerResponses ==
    (req.nWorker = 1 /\ req.status \in {200, 101}) => req.xwc = req.wc.name

\* C11, as stated: a request whose worker-cluster call failed (list TaskRuns,
\* list Pods, get Pod, open the log stream) is answered 502 or 504.
C11_UpstreamFailureStatus ==
    req.worker = "failed" => req.status \in {502, 504}

\* C12, as stated: when ResolveWorkerCluster returns for an authorized request
\* of any operation and the job has no Workload, the request is answered 404.
C12_Step ==
    (req.pc = "resolve" /\ req.authz = "ok" /\ req'.pc # "resolve"
        /\ MatchIndex(NamespaceOf(req), PipelineRunOf(req)) = 0) =>
        req'.pc = "done" /\ req'.status = 404
C12_NoAssignment404 == [][C12_Step]_vars

---------------------------------------------------------------------------
(* Properties of the registry *)

\* The goroutine takes a DELETED event off the channel.
DeletedStep ==
    /\ wpc = "recv"
    /\ events # <<>>
    /\ Head(events).type = "DELETED"
    /\ events' = Tail(events)

\* The configs a cluster's kubeconfig secret can parse to
ParsedConfigs(c) ==
    IF c = "c1" THEN {[host |-> "https://c1"], [host |-> "https://c1b"]}
    ELSE {[host |-> HostOf(c)]}

\* The items the running call of LoadConfigs resolved, and those it could not
Loaded == {i \in 1..Len(lcDone) : lcDone[i].outcome.err = ""}
Failed == {i \in 1..Len(lcDone) : lcDone[i].outcome.err # ""}

\* The call of LoadConfigs has visited every item and is about to return.
ResyncComplete == wpc = "iter" /\ lcItems = <<>>

\* C13: the step that processes a DELETED event for X removes the entry X and
\* changes nothing else of the map, with no reader inside and no resync
\* holding the lock.
C13_Step ==
    DeletedStep =>
        LET X == Head(events).name
        IN  /\ DOMAIN configs' = (DOMAIN configs) \ {X}
            /\ \A n \in DOMAIN configs' : configs'[n] = configs[n]
            /\ mu = "free" /\ mu' = "free"
            /\ readers.get.pc = "idle" /\ readers.list.pc = "idle"
C13_DeleteExactlyOne == [][C13_Step]_vars

\* c1 was read from the cache, then deleted; c2 is still there
C13_Witness ==
    /\ readers.get.name = "c1"
    /\ readers.get.got = [err |-> FALSE, config |-> [host |-> "https://c1"]]
    /\ "c1" \notin DOMAIN mkClusters
    /\ DOMAIN configs = {"c2"}
    /\ configs["c2"] = [host |-> "https://c2"]
    /\ events = <<>>
    /\ wpc = "recv"

\* C14: an entry of the map disappears only in the step that processes a
\* DELETED event for its name.
C14_Step ==
    \A n \in DOMAIN configs :
        n \notin DOMAIN configs' => DeletedStep /\ Head(events).name = n
C14_RemovedOnlyByDelete == [][C14_Step]_vars

\* a resync that could not parse c1's kubeconfig has left c1's entry in place
C14_Witness ==
    /\ ResyncComplete
    /\ \E i \in Failed : lcDone[i].name = "c1" /\ lcDone[i].outcome.err = "parse"
    /\ "c1" \in DOMAIN configs
    /\ configs["c1"] = [host |-> "https://c1"]

\* C15: whatever the outcome of an item, the loop of LoadConfigs goes on to
\* the next one with the lock held and returns only after the last; every
\* item visited whose resolution succeeded is in the map with its config.
C15_Step ==
    /\ (wpc = "iter" /\ lcItems # <<>> /\ lcItems' # lcItems) =>
          /\ wpc' = "iter"
          /\ mu' = "W"
          /\ lcItems' = Tail(lcItems)
          /\ \A i \in 1..Len(lcDone') :
                lcDone'[i].outcome.err = "" =>
                   /\ lcDone'[i].name \in DOMAIN configs'
                   /\ configs'[lcDone'[i].name] = lcDone'[i].outcome.config
    /\ (wpc = "iter" /\ wpc' # "iter") => lcItems = <<>>
C15_FailureDoesNotAbort == [][C15_Step]_vars

\* the first resync could not resolve c1 and still loaded c2
C15_Witness ==
    /\ ResyncComplete
    /\ lcBefore = NoConfigs
    /\ Len(lcDone) = 2
    /\ lcDone[1].name = "c1" /\ lcDone[1].outcome.err # ""
    /\ lcDone[2].name = "c2" /\ lcDone[2].outcome.err = ""
    /\ DOMAIN configs = {"c2"}

\* C16, as stated: when a resync is complete, every cluster it could not
\* resolve is absent from the map.
C16_Original ==
    ResyncComplete => \A i \in Failed : GetConfig(lcDone[i].name).err

\* C16, amended: a resync writes no entry for a cluster it could not resolve:
\* the cluster is absent from the map if it was absent when the resync began,
\* and an entry loaded by an earlier resync is still there with the value it
\* had.
C16_FailedNotWritten ==
    wpc = "iter" =>
        \A i \in Failed :
            LET X == lcDone[i].name
            IN  /\ X \in DOMAIN configs <=> X \in DOMAIN lcBefore
                /\ X \in DOMAIN configs => configs[X] = lcBefore[X]
                /\ X \notin DOMAIN lcBefore => GetConfig(X).err

\* c1, loaded by an earlier resync, is still in the map after a resync that
\* did not find its secret
C16_Witness ==
    /\ ResyncComplete
    /\ \E i \in Failed : lcDone[i].name = "c1" /\ lcDone[i].outcome.err = "secret"
    /\ "c1" \in DOMAIN lcBefore
    /\ ~GetConfig("c1").err
    /\ GetConfig("c1").config = lcBefore["c1"]

\* C17: while a resync runs and when it is complete, every item it resolved
\* is in the map with the config it parsed, and every name it did not write
\* has the entry, or the absence, it had when the resync began.
C17_InsertOrUpdate ==
    wpc = "iter" =>
        LET written == {lcDone[i].name : i \in Loaded}
        IN  /\ \A i \in Loaded :
                  /\ lcDone[i].name \in DOMAIN configs
                  /\ configs[lcDone[i].name] = lcDone[i].outcome.config
            /\ \A n \in ((DOMAIN configs) \cup (DOMAIN lcBefore)) \ written :
                  /\ n \in DOMAIN configs
                  /\ n \in DOMAIN lcBefore
                  /\ configs[n] = lcBefore[n]

\* a resync has replaced c1's config by the one of its rotated kubeconfig
C17_Witness ==
    /\ ResyncComplete
    /\ "c1" \in DOMAIN lcBefore
    /\ lcBefore["c1"] = [host |-> "https://c1"]
    /\ configs["c1"] = [host |-> "https://c1b"]
    /\ configs["c2"] = lcBefore["c2"]

\* C18: every entry of the map is a config parsed in full from a kubeconfig
\* of its cluster, and what GetConfig returned for X is not-found or such a
\* config of X; the map does not change while a reader is inside.
C18_Step ==
    /\ \A n \in DOMAIN configs' : configs'[n] \in ParsedConfigs(n)
    /\ readers'.get.got # NoResult =>
          \/ readers'.get.got = [err |-> TRUE, config |-> [host |-> ""]]
          \/ /\ ~readers'.get.got.err
             /\ readers'.get.got.config \in ParsedConfigs(readers'.get.name)
    /\ readers'.get.got # readers.get.got =>
          \/ readers'.get.got = NoResult
          \/ readers'.get.got = GetConfig(readers.get.name)
    /\ (readers.get.pc = "rlocked" /\ readers'.get.pc = "rlocked") => configs' = configs
C18_NoPartialEntry == [][C18_Step]_vars

\* GetConfig returned c1's rotated config, and another resync now holds the
\* lock
C18_Witness ==
    /\ readers.get.name = "c1"
    /\ readers.get.got = [err |-> FALSE, config |-> [host |-> "https://c1b"]]
    /\ readers.get.pc = "idle"
    /\ wpc = "list"

\* C19, as stated: while a resync is listing the registrations or fetching
\* and parsing secrets, a reader that calls GetConfig can take its read lock.
C19_ReaderNotBlocked ==
    (wpc \in {"list", "iter"} /\ readers.get.pc = "idle") => ENABLED GetConfigRLock

\* The lock is consistent with who is inside
LockHeld ==
    /\ mu = "W" <=> wpc \in {"list", "iter"}
    /\ mu = "R" <=> (readers.get.pc = "rlocked" \/ readers.list.pc = "rlocked")
    /\ mu \in {"free", "W", "R"}

\* C20: a resync is inside only with the write side held, a reader only with
\* the read side held, never both at once; the map is written only by the
\* goroutine holding the write side (a resync, or the delete of a DELETED
\* event taken on a free lock) and read only under the read side.
C20_Step ==
    /\ LockHeld'
    /\ ~(mu' = "W" /\ (readers'.get.pc = "rlocked" \/ readers'.list.pc = "rlocked"))
    /\ configs' # configs =>
          /\ readers.get.pc = "idle" /\ readers.list.pc = "idle"
          /\ mu = "W" \/ (mu = "free" /\ DeletedStep)
    /\ (readers'.get.got # readers.get.got /\ readers'.get.got # NoResult) =>
          readers.get.pc = "rlocked" /\ mu = "R"
C20_ReadersWriterLock == [][C20_Step]_vars

\* GetConfig and ListClusters are inside together while a resync waits for
\* the lock
C20_Witness ==
    /\ readers.get.pc = "rlocked"
    /\ readers.list.pc = "rlocked"
    /\ mu = "R"
    /\ wpc = "load"

\* The running resync has written some of its items and not yet all.
PartlyApplied == wpc = "iter" /\ lcDone # <<>> /\ lcItems # <<>>

\* C21: from the moment a resync takes the lock to its return no reader is
\* between RLock and RUnlock, so whatever GetConfig or ListClusters reads is
\* the map as a resync found it or as a resync left it.
C21_Step ==
    /\ wpc' \in {"list", "iter"} =>
          /\ readers'.get.pc = "idle" /\ readers'.list.pc = "idle"
          /\ readers'.get.got = readers.get.got
    /\ (readers.get.pc = "rlocked" \/ readers.list.pc = "rlocked") =>
          /\ lcDone = <<>> /\ lcItems = <<>>
          /\ configs' = configs
    /\ PartlyApplied => ~ENABLED GetConfigRLock /\ ~ENABLED ListClustersRLock
C21_ResyncNotTorn == [][C21_Step]_vars

\* a resync has written c1's rotated config and not yet visited c2
C21_Witness ==
    /\ PartlyApplied
    /\ lcDone[1].name = "c1"
    /\ "c1" \in DOMAIN configs /\ configs["c1"] = [host |-> "https://c1b"]
    /\ "c1" \in DOMAIN lcBefore /\ lcBefore["c1"] = [host |-> "https://c1"]
    /\ Head(lcItems).name = "c2"
    /\ readers.get.pc = "idle"

\* C22: an event leaves the channel only from its head, only when the
\* goroutine is back at the range loop (the resync of the event before has
\* returned), and the step that takes it starts the event's own effect: the
\* delete for DELETED, a call of LoadConfigs for ADDED and MODIFIED.  Events
\* enter the channel at its tail.
C22_Step ==
    /\ Len(events') < Len(events) =>
          /\ events' = Tail(events)
          /\ wpc = "recv" /\ mu # "W" /\ lcItems = <<>>
          /\ Head(events).type = "DELETED" =>
                /\ wpc' = "recv" /\ mu = "free"
                /\ DOMAIN configs' = (DOMAIN configs) \ {Head(events).name}
          /\ Head(events).type \in {"ADDED", "MODIFIED"} =>
                wpc' = "load" /\ wcaller' = "event" /\ configs' = configs
    /\ Len(events') > Len(events) =>
          SubSeq(events', 1, Len(events)) = events
    /\ Len(events') = Len(events) => events' = events
    /\ wpc \in {"load", "list", "iter"} => Len(events') >= Len(events)
C22_EventsInOrder == [][C22_Step]_vars

\* c1 was deleted and registered again at once: both events wait while the
\* goroutine is still in the resync of the event before
C22_Witness ==
    /\ events = <<[type |-> "DELETED", name |-> "c1"], [type |-> "ADDED", name |-> "c1"]>>
    /\ wpc = "iter"
    /\ wcaller = "event"

\* The feed has ended and the channel is drained, or the goroutine returned.
FeedOver == wpc = "stopped" \/ (wpc = "recv" /\ watch = "closed" /\ events = <<>>)

\* C23: once the feed is over the goroutine returns and stays returned, the
\* watch is not opened again, the map is never written again, and the lock
\* is never write-held, so that readers go on.
C23_Step ==
    FeedOver =>
        /\ wpc' = "stopped" \/ wpc' = wpc
        /\ watch' = watch
        /\ configs' = configs
        /\ mu # "W" /\ mu' # "W"
        /\ FeedOver'
C23_FrozenAfterFeedEnds == [][C23_Step]_vars

\* the feed ended with c1 cached; c1 was then unregistered and GetConfig
\* still returns its config
C23_Witness ==
    /\ wpc = "stopped"
    /\ watch = "closed"
    /\ "c1" \notin DOMAIN mkClusters
    /\ readers.get.pc = "idle"
    /\ readers.get.name = "c1"
    /\ readers.get.got = [err |-> FALSE, config |-> [host |-> "https://c1"]]
    /\ "c1" \in DOMAIN configs

---------------------------------------------------------------------------
(* Properties of the probes *)

\* C24: a /ready request goes to ListClusters whatever its credential, makes
\* no review, and when ListClusters returns is answered 503 if the map is
\* then empty and 200 if it is not.
C24_Step ==
    /\ (req.pc = "idle" /\ req'.route = "ready") => req'.pc = "ready"
    /\ (req.pc = "ready" /\ req'.pc # "ready") =>
          /\ req'.pc = "done"
          /\ req'.status = IF DOMAIN configs = {} THEN 503 ELSE 200
          /\ req'.ssar = NoReview /\ req'.authz = "none"
          /\ req'.nResolve = 0
C24_ReadyIffCacheNonEmpty == [][C24_Step]_vars

\* /ready answers 503 after the last entry of a cache that held c1 was
\* deleted
C24_Witness ==
    /\ req.route = "ready"
    /\ req.hdr = <<>>
    /\ req.status = 503
    /\ readers.get.got = [err |-> FALSE, config |-> [host |-> "https://c1"]]
    /\ DOMAIN configs = {}
    /\ DOMAIN mkClusters = {}

\* C25: a /health request is answered at once with 200 and the body OK,
\* whatever its credential and whatever the state of the registry, with no
\* review, no resolution and no registry lookup.
C25_HealthAlwaysOK ==
    req.route = "health" =>
        /\ req.pc = "done"
        /\ req.status = 200
        /\ req.body = [kind |-> "OK"]
        /\ req.ssar = NoReview /\ req.authz = "none"
        /\ req.nResolve = 0 /\ req.nGetConfig = 0 /\ req.nWorker = 0
        /\ req.config = NoConfig /\ req.wc = NoWorkerCluster

\* /health answered 200 without a credential while the cache was empty and
\* a resync held the lock
C25_Witness ==
    /\ req.route = "health"
    /\ req.hdr = <<>>
    /\ req.status = 200
    /\ DOMAIN configs = {}
    /\ mu = "W"

---------------------------------------------------------------------------
(* The log stream *)

\* C26: when the worker's follow-stream has delivered its bytes and ended,
\* and the caller stayed connected, the caller has received exactly those
\* bytes, in order, by the time the relay has ended on end-of-stream: the
\* bytes that the last Read returned together with io.EOF included.
C26_StreamDeliversAllBytes ==
    (/\ req.op = "stream"
     /\ req.pc = "done"
     /\ stream.how = "eof"
     /\ stream.caller = "connected")
        => stream.out = stream.all

\* The relay loop of handleLogsStream is running
Relaying == req.op = "stream" /\ req.pc \in {"relay", "relaywrite"}

\* C27: once the caller has disconnected during the relay, the relay
\* eventually ends (and with it the deferred logs.Close() and conn.Close()
\* run), also when the worker cluster delivers no further byte.
C27_DisconnectEndsRelay ==
    (Relaying /\ stream.caller = "gone") ~> ~Relaying

\* The operations that answer once: all but the log stream
UnaryOps == {"resolve", "taskruns", "pods", "podstatus", "logs"}

\* C28: Config.RequestTimeout bounds the calls of a unary operation: when
\* that duration has passed since the request arrived, the operation is not
\* still waiting for the hub or for a worker cluster.
C28_RequestTimeoutBoundsUnary ==
    (req.late /\ req.pc \in {"resolve", "worker"}) => req.op \notin UnaryOps

---------------------------------------------------------------------------
(* One request after another *)

\* The step in which ResolveWorkerCluster returns to handleResolve with the
\* hub's answer to the Workloads List
ResolveAnswered ==
    /\ req.pc = "resolve"
    /\ req.op = "resolve"
    /\ req'.pc = "done"
    /\ req'.listed

\* The request in hand repeats the last answered /resolve: the same caller,
\* namespace and PipelineRun, and the Workloads as they were at its List.
Repeats ==
    /\ hist.status # 0
    /\ hist.key = <<req.ssar.cred, NamespaceOf(req), PipelineRunOf(req)>>
    /\ hist.seen = workloads

C29_Step ==
    (ResolveAnswered /\ Repeats)
        => /\ req'.status = hist.status
           /\ req'.body = hist.body

C30_Step ==
    /\ (req.pc = "ssar" /\ req'.pc # "ssar")
          => /\ req'.authz = "ok" => HubAllowed(req.ssar)
             /\ req.ssar.cred \in revoked => req'.pc = "done" /\ req'.status = 403
    /\ (req.pc = "resolve" /\ req'.pc # "resolve" /\ req'.listed)
          => LET i == MatchIndex(NamespaceOf(req), PipelineRunOf(req))
             IN  /\ i = 0 => req'.pc = "done" /\ req'.status = 404
                 /\ (i # 0 /\ ~workloads[i].admission)
                       => /\ req'.wc.state = "Dispatching"
                          /\ req'.wc.workloadName = workloads[i].name
                          /\ req'.pc = "done"
                          /\ req'.status = 409
                 /\ (i # 0 /\ workloads[i].admission)
                       => /\ req'.wc.state = "Admitted"
                          /\ req'.wc.workloadName = workloads[i].name
                          /\ workloads[i].clusterName \notin {NilString, ""}
                                => req'.wc.name = workloads[i].clusterName
                          /\ IF req.op = "resolve"
                               THEN req'.pc = "done" /\ req'.status = 200
                               ELSE req'.pc = "getconfig"
                 /\ (i # 0 /\ req.op = "resolve")
                       => req'.body = EncodeWorkerCluster(req'.wc)
    /\ (req.pc = "getconfig" /\ req'.pc # "getconfig")
          => IF req.wc.name \in DOMAIN configs
               THEN req'.pc = "worker" /\ req'.config = configs[req.wc.name]
               ELSE req'.pc = "done" /\ req'.status = 424

\* C30: each decision of a request is made from the hub and the registry
\* as they are at that step, whatever earlier requests were answered: the
\* review passes only if the hub allows the caller now (a revoked caller is
\* answered 403), the resolve gives what the Workloads say now (Admitted once
\* the Workload is admitted), and the config is the registry's entry now.
C30_NothingCarriedOver == [][C30_Step]_vars

\* /resolve was answered 409 and then, the Workload admitted, 200; the
\* caller's access has been revoked since and the next request got 403
C30_Witness ==
    /\ hist.before = 409
    /\ hist.status = 200
    /\ hist.key[1] = "tokA"
    /\ "tokA" \in revoked
    /\ req.pc = "done"
    /\ req.ssar.cred = "tokA"
    /\ req.authz = "failed"
    /\ req.status = 403

---------------------------------------------------------------------------
(* One attempt *)

C31_Step ==
    /\ req'.nResolve <= 1
    /\ req'.nGetConfig <= 1
    /\ req'.nWorker <= 1
    /\ (req.pc = "ssar" /\ req'.authz = "failed")
          => req'.pc = "done" /\ req'.status = 403
    /\ (req.pc = "resolve" /\ req'.pc # "resolve" /\ req'.wc = NoWorkerCluster)
          => req'.pc = "done" /\ req'.status \in {404, 500}
    /\ (req.pc = "getconfig" /\ req'.pc # "getconfig" /\ req'.config = NoConfig)
          => req'.pc = "done" /\ req'.status = 424
    /\ (req.pc = "worker" /\ req'.worker = "failed")
          => req'.pc = "done" /\ req'.status = 500
    /\ req.pc = "done" => req'.pc \in {"done", "idle"}

\* C31: a request calls ResolveWorkerCluster, GetConfig and the worker
\* cluster at most once each; when the review, the resolve, the registry
\* lookup or the worker call fails, that step ends the request with the
\* failure's status and no step is taken again.
C31_NoRetry == [][C31_Step]_vars

\* the one call on the worker cluster failed and the request was answered
C31_Witness ==
    /\ req.pc = "done"
    /\ req.worker = "failed"
    /\ req.nWorker = 1
    /\ req.status = 500

---------------------------------------------------------------------------
(* Read-only *)

\* The calls that read: list, get, get logs
ReadCalls == {"TaskRuns.List", "Pods.List", "Pods.Get", "Pods.GetLogs",
              "Pods.GetLogs.Follow"}

C32_Step ==
    /\ (workloads' # workloads \/ mkClusters' # mkClusters \/ secrets' # secrets)
          => /\ req' = req
             /\ configs' = configs
             /\ mu' = mu
             /\ wpc' = wpc
             /\ lcItems' = lcItems
             /\ readers' = readers
    /\ req'.call # NoCall => req'.call.kind \in ReadCalls

\* C32: no step of a handler and no step of the registry changes a
\* Workload, a MultiKueueCluster or a Secret on the hub (when one of them
\* changes, the proxy's own state does not move in that step: it was the
\* hub), and the only calls made on a worker cluster are list, get and
\* get-logs.
C32_ReadOnly == [][C32_Step]_vars

\* the registry has dropped c1 on its DELETED event and a request has been
\* served from a worker cluster, with the secrets on the hub as they were
C32_Witness ==
    /\ "c1" \notin DOMAIN configs
    /\ "c1" \notin DOMAIN mkClusters
    /\ wpc = "recv"
    /\ events = <<>>
    /\ req.pc = "done"
    /\ req.worker = "ok"
    /\ req.call.kind \in ReadCalls
    /\ SecretOf("c1") \in DOMAIN secrets

---------------------------------------------------------------------------
(* The bounded log fetch *)

\* handleLogsFetch has its log stream from the worker cluster
Fetching == req.op = "logs" /\ req.worker = "ok" /\ req.pc \in {"copy", "copywrite", "done"}

\* C33: a bounded log fetch has made one call on the worker cluster, a
\* GetLogs without Follow, and is answered 200 with Content-Type
\* text/plain; what the caller has received, then what is in the buffer,
\* then what the worker has delivered and is not yet read, are together the
\* bytes the worker delivered, in order; the handler returns (and its
\* deferred logs.Close() runs) only on end-of-stream or on an error, and
\* when it returned on end-of-stream with the caller connected the caller
\* has every byte.
C33_BoundedLogsVerbatim ==
    Fetching =>
        /\ req.nWorker = 1
        /\ req.call.kind = "Pods.GetLogs"
        /\ req.status = 200
        /\ req.ctype = "text/plain"
        /\ stream.caller = "connected" /\ stream.how \in {"", "eof"}
              => stream.out \o stream.buf \o stream.pipe = stream.all
        /\ req.pc = "done" => stream.how \in {"eof", "read error", "write error"}
        /\ req.pc = "done" <=> ~stream.logsOpen
        /\ stream.how = "eof" => stream.ended
        /\ (req.pc = "done" /\ stream.how = "eof" /\ stream.caller = "connected")
              => stream.out = stream.all

\* the worker delivered three bytes and ended the stream, the copy is over
\* and the caller has all three
C33_Witness ==
    /\ Fetching
    /\ req.pc = "done"
    /\ stream.how = "eof"
    /\ stream.caller = "connected"
    /\ stream.all = <<1, 2, 3>>
    /\ stream.out = <<1, 2, 3>>

---------------------------------------------------------------------------
(* The frames of the log stream *)

RECURSIVE Flatten(_)
\* The bytes of a sequence of messages, one after the other
Flatten(fs) == IF fs = <<>> THEN <<>> ELSE Head(fs) \o Flatten(Tail(fs))

IsPrefix(a, b) == Len(a) <= Len(b) /\ a = SubSeq(b, 1, Len(a))

\* The upgrade is done: the relay loop runs or has ended
Relayed == req.op = "stream" /\ req.status = 101 /\ req.pc \in {"relay", "relaywrite", "done"}

\* C34: in the relay of the log stream every Read that returned without
\* error has been followed by one WriteMessage of what it read (the last
\* one may still be due, or have failed), so the messages sent are the
\* reads, in order; no message is longer than the buffer; the bytes of the
\* messages sent are a prefix of the bytes the worker has delivered; and
\* after a Read error or a WriteMessage error the loop has ended.
C34_FramePerRead ==
    Relayed =>
        /\ Len(stream.frames) =
              stream.reads - (IF req.pc = "relaywrite" \/ stream.how = "write error"
                                THEN 1 ELSE 0)
        /\ \A i \in 1..Len(stream.frames) : Len(stream.frames[i]) <= BufSize
        /\ IsPrefix(Flatten(stream.frames), stream.all)
        /\ req.pc = "relaywrite"
              => Flatten(stream.frames) \o stream.buf \o stream.pipe = stream.all
        /\ stream.how \in {"read error", "write error"} => req.pc = "done"

\* three bytes were relayed in two messages, the first of a full buffer
C34_Witness ==
    /\ Relayed
    /\ stream.reads = 2
    /\ stream.frames = <<(<<1, 2>>), (<<3>>)>>
    /\ stream.all = <<1, 2, 3>>

---------------------------------------------------------------------------
(* The log stream: upgrade last, and everything closed on the way out *)

\* A request for the log stream, whatever became of it
StreamRequest ==
    /\ req.route = "namespaces"
    /\ req.parts = <<Namespace, "logs", "stream">>
    /\ req.pc # "new"

\* C35: in a request for the log stream the connection is upgraded (101)
\* only when the review has passed, the PipelineRun is resolved and
\* Admitted, its cluster's config was found and the follow-stream is open;
\* a request that ends without the upgrade is answered a plain HTTP status;
\* the connection is open only while the follow-stream is; and once the
\* handler has returned, on whichever path, the follow-stream is closed and
\* so is the connection.
C35_UpgradeLastCloseAll ==
    StreamRequest =>
        /\ (req.status = 101 \/ stream.connOpen)
              => /\ req.authz = "ok"
                 /\ req.nResolve = 1
                 /\ req.wc.state = "Admitted"
                 /\ req.nGetConfig = 1
                 /\ req.config # NoConfig
                 /\ req.worker = "ok"
        /\ stream.logsOpen => req.worker = "ok" /\ req.pc \in {"upgrade", "relay", "relaywrite"}
        /\ stream.connOpen => stream.logsOpen /\ req.status = 101
        /\ (req.pc = "done" /\ req.status # 101)
              => /\ req.status \in {400, 403, 409, 424, 500}
                 /\ stream.frames = <<>>
        /\ req.pc = "done" => ~stream.logsOpen /\ ~stream.connOpen

\* the relay ended on a failed WriteMessage after the caller had gone, and
\* both ends are closed
C35_Witness ==
    /\ StreamRequest
    /\ req.pc = "done"
    /\ req.status = 101
    /\ stream.how = "write error"
    /\ stream.reads >= 1
    /\ ~stream.logsOpen
    /\ ~stream.connOpen

---------------------------------------------------------------------------
(* The parameters of the bounded log fetch *)

Digits == {"0", "1", "2", "3", "4", "5", "6", "7", "8", "9"}

\* The digits of a value: what follows its sign, if it has one
Unsigned(s) == IF s # <<>> /\ s[1] \in {"+", "-"} THEN Tail(s) ELSE s

RECURSIVE Pow10(_)
Pow10(n) == IF n = 0 THEN 1 ELSE 10 * Pow10(n - 1)

RECURSIVE PlaceSum(_, _)
\* The number that the first k digits of d contribute, by their places
PlaceSum(d, k) ==
    IF k = 0 THEN 0
    ELSE PlaceSum(d, k - 1)
           + (CHOOSE v \in 0..9 : DigitValue(d[k]) = v) * Pow10(Len(d) - k)

\* The integer a decimal numeral stands for
IntValue(s) ==
    LET m == PlaceSum(Unsigned(s), Len(Unsigned(s)))
    IN  IF s[1] = "-" THEN 0 - m ELSE m

\* The value is a decimal numeral of an int64
IsInt64(s) ==
    /\ Unsigned(s) # <<>>
    /\ \A k \in 1..Len(Unsigned(s)) : Unsigned(s)[k] \in Digits
    /\ IntValue(s) \in (0 - MaxInt64 - 1)..MaxInt64

\* C36: the PodLogOptions of a bounded log fetch carry, as TailLines, the
\* integer that ?tailLines= spells, and Config.DefaultLogTailLines when the
\* parameter is absent or spells no int64; SinceTime is set exactly when
\* ?sinceSeconds= spells an int64 greater than 0, to that many seconds ago;
\* Follow is not set; and no value of the two parameters gets the request
\* a 400.
C36_LogParameters ==
    (req.op = "logs" /\ req.call # NoCall) =>
        LET t == req.q.tailLines
            sn == req.q.sinceSeconds
            opts == req.call.opts
        IN  /\ opts.tailLines.set
            /\ opts.tailLines.val = IF IsInt64(t) THEN IntValue(t)
                                    ELSE DefaultLogTailLines
            /\ opts.sinceTime.set <=> (IsInt64(sn) /\ IntValue(sn) > 0)
            /\ opts.sinceTime.set => opts.sinceTime.secondsAgo = IntValue(sn)
            /\ ~opts.follow
            /\ req.status # 400

\* ?tailLines=2x&sinceSeconds=2 was answered 200, with the default tail and
\* a SinceTime of two seconds ago sent to the worker cluster
C36_Witness ==
    /\ req.op = "logs"
    /\ req.pc = "done"
    /\ req.status = 200
    /\ req.q.tailLines = <<"2", "x">>
    /\ req.q.sinceSeconds = <<"2">>
    /\ req.call.opts.tailLines = [set |-> TRUE, val |-> DefaultLogTailLines]
    /\ req.call.opts.sinceTime = [set |-> TRUE, secondsAgo |-> 2]

---------------------------------------------------------------------------
(* A resync whose List fails *)

\* The step in which MultiKueueClusters().List fails and LoadConfigs returns
ListFails == wpc = "list" /\ wpc' \notin {"list", "iter"}

C37_Step ==
    ListFails =>
        /\ configs' = configs
        /\ configs' = lcBefore
        /\ mu' = "free"
        /\ events' = events
        /\ wpc' = IF wcaller = "initial" THEN "open" ELSE "recv"

\* C37: when the List of the MultiKueueClusters fails, LoadConfigs returns
\* with the map exactly as it was when the call began and with the lock
\* released, and the goroutine carries on: to the Watch after the initial
\* load, back to the loop over the events (none of them lost) after a
\* reload.
C37_ListFailureKeepsCache == [][C37_Step]_vars

\* c1 was unregistered and dropped, then registered again; the reload for
\* its ADDED event failed at the List, so the map still has c2 alone, and
\* the goroutine is back at the loop
C37_Witness ==
    /\ "c1" \in DOMAIN mkClusters
    /\ DOMAIN configs = {"c2"}
    /\ wpc = "recv"
    /\ wcaller = "event"
    /\ events = <<>>
    /\ watch = "open"

---------------------------------------------------------------------------
(* The cache once the events are consumed *)

\* The goroutine waits in the range loop over an open watch channel that
\* holds no event: everything the watch delivered has been handled.
Quiescent == wpc = "recv" /\ watch = "open" /\ events = <<>>

\* C38: whenever the watch is open and every event it delivered has been
\* consumed, each name in the map is the name of a MultiKueueCluster that
\* exists, also when the cluster was deleted after the initial LoadConfigs
\* and before the Watch was opened.
C38_CacheConverges == Quiescent => DOMAIN configs \subseteq DOMAIN mkClusters

---------------------------------------------------------------------------
(* Malformed requests *)

\* The shapes of a request under /api/v1/namespaces/, read from its path
ShortPath(r) == r.route = "namespaces" /\ Len(r.parts) < 2
LogsPath(r) == r.route = "namespaces" /\ Len(r.parts) >= 2 /\ r.parts[2] = "logs"
PodStatusPath(r) ==
    /\ r.route = "namespaces"
    /\ Len(r.parts) = 4
    /\ r.parts[2] = "pods"
    /\ r.parts[4] = "status"

\* A request for pod status, bounded logs or a log stream that passes the
\* checks made before the review and has no ?pipelineRun=
LacksPipelineRun(r) ==
    /\ r.q.pipelineRun = ""
    /\ PodStatusPath(r) \/ (LogsPath(r) /\ r.q.pod # "")

\* No review was submitted and no credential looked at
BeforeAuthz(r) == r.authz = "none" /\ r.ssar = NoReview

\* The request made no call beyond the review
NoCallsMade(r) ==
    /\ r.nResolve = 0 /\ r.nGetConfig = 0 /\ r.nWorker = 0
    /\ r.worker = "none" /\ r.call = NoCall

\* The handshake of a log stream request was refused by the Upgrader, after
\* the follow-stream was opened on the worker cluster
UpgradeRefused(r) ==
    /\ r.op = "stream"
    /\ r.authz = "ok"
    /\ r.nResolve = 1 /\ r.nGetConfig = 1 /\ r.nWorker = 1
    /\ r.worker = "ok"

---------------------------------------------------------------------------
(* The registry before and during its initial LoadConfigs *)

\* The goroutine has not finished the LoadConfigs it starts with
InitialRunning == wcaller = "initial" /\ wpc \in {"load", "list", "iter"}

C40_Step ==
    /\ (wcaller = "initial" /\ wpc \in {"load", "list"}) => configs = NoConfigs
    /\ InitialRunning => watch = "none" /\ events = <<>>
    /\ (configs = NoConfigs /\ req.pc = "getconfig" /\ req'.pc # "getconfig") =>
          /\ req'.pc = "done"
          /\ req'.status = 424
          /\ req'.nWorker = 0
    /\ (configs = NoConfigs /\ req.pc = "ready" /\ req'.pc # "ready") =>
          req'.pc = "done" /\ req'.status = 503
    /\ Len(events') < Len(events) => ~InitialRunning /\ wpc = "recv"

\* C40: NewWorkerConfigRegistry hands over a registry whose map is empty and
\* leaves the initial LoadConfigs to the goroutine, so requests are served
\* while it has not run or is running.  As long as the map is empty a
\* GetConfig fails, the sub-resource request of an Admitted PipelineRun is
\* answered 424 without a worker call, and /ready is answered 503.  No
\* watch is open and no event exists until the initial LoadConfigs has
\* returned, so no event is consumed before it.
C40_EmptyUntilInitialLoad == [][C40_Step]_vars

\* a sub-resource request was answered 424 before the goroutine took its
\* first step
C40_Witness ==
    /\ wcaller = "initial"
    /\ wpc = "load"
    /\ configs = NoConfigs
    /\ req.pc = "done"
    /\ req.status = 424
    /\ req.wc.state = "Admitted"
    /\ req.nGetConfig = 1

===========================================================================
